---- MODULE Spec2Model ----
(***************************************************************************)
(* Redis REST proxy (src/src/server.ts): the request handler, the command  *)
(* builder, the batch executor and the response formatter, with the store  *)
(* client (ioredis) as the environment.                                    *)
(***************************************************************************)
EXTENDS Integers, Sequences, FiniteSets, TLC

\* ------------------------------------------------------------------------
\* Bounds of the model
\* ------------------------------------------------------------------------
NumReqs == 2      \* request slots: how many requests can be in flight at once
MaxQuery == 2     \* query parameters per request

Reqs == 1..NumReqs

\* ------------------------------------------------------------------------
\* Configuration
\* ------------------------------------------------------------------------
\* env.AUTH_TOKEN (its default, CONSTANTS.DEFAULT_TOKEN)
AUTH_TOKEN == "MY_SUPER_SECRET_TOKEN"

\* ------------------------------------------------------------------------
\* JSON values (request bodies, store replies, response bodies)
\* ------------------------------------------------------------------------
JNull == [t |-> "null"]
JBool(b) == [t |-> "bool", b |-> b]
JNum(n) == [t |-> "num", n |-> n]
JStr(s) == [t |-> "str", s |-> s]
JArr(a) == [t |-> "arr", a |-> a]
\* a mapping, as the sequence of its entries <<key, value>> in entry order
JObj(kv) == [t |-> "obj", kv |-> kv]

\* Array.isArray(v)
IsArray(v) == v.t = "arr"

\* JavaScript String(v)
String(v) ==
  CASE v.t = "str" -> v.s
    [] v.t = "num" -> ToString(v.n)
    [] v.t = "bool" -> IF v.b THEN "true" ELSE "false"
    [] v.t = "null" -> "null"
    [] OTHER -> "[object]"

\* arr.map(String)
MapString(a) == [i \in 1..Len(a) |-> String(a[i])]

\* ------------------------------------------------------------------------
\* Requests
\* ------------------------------------------------------------------------
\* A request is [method, path, auth, query, body, enc, encoding, format]:
\*   path   the parts of the pathname after its leading "/", so that
\*          "/health" is <<"health">>, "/" is <<"">>, "/set/foo" is <<"set","foo">>
\*   auth   the Authorization header ('' when absent), as its first seven
\*          characters (pre) and the rest (what slice(7) returns)
\*   query  the URL's search parameters, a sequence of <<key, value>>
\*   body   [kind, val]: kind "blank" (empty or whitespace only), "unreadable"
\*          (reading the stream fails), "invalid" (not JSON), "json" (val)
\*   enc    the Upstash-Encoding header ("" when absent)
\*   encoding  the Encoding header ("" when absent)
\*   format    the Upstash-Response-Format header ("" when absent)
HealthPath == <<"health">>
PipelinePath == <<"pipeline">>
MultiExecPath == <<"multi-exec">>

Methods == {"GET", "POST", "PUT"}

Paths == {<<"">>, HealthPath, PipelinePath, MultiExecPath, <<"set", "foo">>}

NoAuthHeader == [pre |-> "", rest |-> ""]
Bearer(tok) == [pre |-> "Bearer ", rest |-> tok]

AuthHeaders ==
  { NoAuthHeader, Bearer(AUTH_TOKEN), Bearer("WRONG_TOKEN"), Bearer(""),
    [pre |-> "MY_SUPE", rest |-> "R_SECRET_TOKEN"] }

QueryPairs ==
  { <<"_token", AUTH_TOKEN>>, <<"_token", "WRONG_TOKEN">>, <<"extra", "param">> }

Queries == UNION { [1..n -> QueryPairs] : n \in 0..MaxQuery }

BlankBody == [kind |-> "blank", val |-> JNull]
UnreadableBody == [kind |-> "unreadable", val |-> JNull]
InvalidBody == [kind |-> "invalid", val |-> JNull]
JsonBody(v) == [kind |-> "json", val |-> v]

JsonValues ==
  { JNull,
    JStr(""),
    JObj(<<>>),
    JArr(<<>>),
    JArr(<<JStr("echo"), JStr("Hello")>>),
    JArr(<<JStr("incr"), JNum(1)>>),
    JArr(<<JNum(1), JStr("a")>>),
    JArr(<<JStr(""), JStr("a")>>),
    JArr(<<JStr("get"), JNull>>),
    JArr(<<JStr("get"), JArr(<<JStr("k")>>)>>),
    JArr(<<JArr(<<JStr("set"), JStr("k"), JNum(1)>>)>>),
    JArr(<<JArr(<<JStr("set"), JStr("k"), JStr("v")>>), JArr(<<JStr("get"), JStr("k")>>)>>),
    JArr(<<JArr(<<JStr("get"), JStr("k")>>), JArr(<<>>)>>),
    JArr(<<JArr(<<JStr("get"), JBool(TRUE)>>)>>),
    JArr(<<JArr(<<JStr(""), JStr("a")>>), JArr(<<JNum(1), JStr("b")>>)>>),
    JArr(<<JArr(<<JStr("get"), JStr("k")>>), JStr("get")>>) }

Bodies == {BlankBody, UnreadableBody, InvalidBody} \cup { JsonBody(v) : v \in JsonValues }

Encodings == {"", "base64"}

\* the requests of the model; a GET request carries no body. The headers the
\* handler never reads (Encoding, Upstash-Response-Format) are absent here;
\* FormatRequests, below, has them.
Requests ==
  { request \in [method : Methods, path : Paths, auth : AuthHeaders,
                 query : Queries, body : Bodies, enc : Encodings,
                 encoding : {""}, format : {""}] :
      request.method = "GET" => request.body = BlankBody }

\* ------------------------------------------------------------------------
\* URLSearchParams
\* ------------------------------------------------------------------------
\* url.searchParams.has(key)
searchParamsHas(query, key) == \E i \in 1..Len(query) : query[i][1] = key

\* url.searchParams.get(key): the value of the first parameter named key
searchParamsGet(query, key) ==
  LET first == CHOOSE i \in 1..Len(query) :
                 /\ query[i][1] = key
                 /\ \A j \in 1..(i - 1) : query[j][1] # key
  IN query[first][2]

\* ------------------------------------------------------------------------
\* checkAuth
\* ------------------------------------------------------------------------
\* checkAuth accepting the secret in either channel, whatever the other holds
checkAuthEitherChannel(request) ==
  \/ (request.auth.pre = "Bearer " /\ request.auth.rest = AUTH_TOKEN)
  \/ (searchParamsHas(request.query, "_token")
      /\ searchParamsGet(request.query, "_token") = AUTH_TOKEN)

checkAuth(request) ==
  LET authHeader == request.auth
      bearer == IF authHeader.pre = "Bearer " THEN authHeader.rest ELSE ""
      token == IF bearer = "" /\ searchParamsHas(request.query, "_token")
               THEN searchParamsGet(request.query, "_token")
               ELSE bearer
  IN token = AUTH_TOKEN

\* ------------------------------------------------------------------------
\* encodeToBase64
\* ------------------------------------------------------------------------
\* The 64 characters of the Base64 alphabet, by value
B64Alphabet ==
  << "A","B","C","D","E","F","G","H","I","J","K","L","M","N","O","P",
     "Q","R","S","T","U","V","W","X","Y","Z","a","b","c","d","e","f",
     "g","h","i","j","k","l","m","n","o","p","q","r","s","t","u","v",
     "w","x","y","z","0","1","2","3","4","5","6","7","8","9","+","/" >>

B64Char(i) == B64Alphabet[i + 1]

\* The UTF-8 bytes of the strings the model's store replies with
Utf8(s) ==
  CASE s = "" -> <<>>
    [] s = "OK" -> <<79, 75>>
    [] s = "v" -> <<118>>
    [] s = "f" -> <<102>>
    [] s = "bar" -> <<98, 97, 114>>
    [] s = "PONG" -> <<80, 79, 78, 71>>
    [] s = "Hello" -> <<72, 101, 108, 108, 111>>

\* Buffer.toString('base64'): three bytes to four characters, padded with "="
RECURSIVE ToBase64(_)
ToBase64(bytes) ==
  IF Len(bytes) = 0 THEN ""
  ELSE IF Len(bytes) = 1 THEN
    B64Char(bytes[1] \div 4) \o B64Char((bytes[1] % 4) * 16) \o "=="
  ELSE IF Len(bytes) = 2 THEN
    B64Char(bytes[1] \div 4)
      \o B64Char((bytes[1] % 4) * 16 + bytes[2] \div 16)
      \o B64Char((bytes[2] % 16) * 4) \o "="
  ELSE
    B64Char(bytes[1] \div 4)
      \o B64Char((bytes[1] % 4) * 16 + bytes[2] \div 16)
      \o B64Char((bytes[2] % 16) * 4 + bytes[3] \div 64)
      \o B64Char(bytes[3] % 64)
      \o ToBase64(SubSeq(bytes, 4, Len(bytes)))

\* encodeToBase64 that does not descend below the first level of an array
encodeToBase64Shallow(value) ==
  IF value.t = "str" /\ value.s # "OK" THEN JStr(ToBase64(Utf8(value.s)))
  ELSE IF value.t = "arr" THEN
    JArr([i \in 1..Len(value.a) |->
            IF value.a[i].t = "str" THEN JStr(ToBase64(Utf8(value.a[i].s)))
            ELSE value.a[i]])
  ELSE value

RECURSIVE encodeToBase64(_)
encodeToBase64(value) ==
  IF value.t = "str" /\ value.s # "OK" THEN JStr(ToBase64(Utf8(value.s)))
  ELSE IF value.t = "arr" THEN
    JArr([i \in 1..Len(value.a) |-> encodeToBase64(value.a[i])])
  ELSE IF value.t = "obj" THEN
    JObj([i \in 1..Len(value.kv) |-> <<value.kv[i][1], encodeToBase64(value.kv[i][2])>>])
  ELSE value

\* ------------------------------------------------------------------------
\* formatRedisResponse
\* ------------------------------------------------------------------------
\* String.prototype.toLowerCase, on the header values of the model
toLowerCase(s) ==
  CASE s = "BASE64" -> "base64"
    [] s = "Base64" -> "base64"
    [] OTHER -> s

\* a flattening of every depth: the elements of an array value are spliced in
RECURSIVE entriesFlatDeep(_)
entriesFlatDeep(kv) ==
  IF Len(kv) = 0 THEN <<>>
  ELSE <<JStr(Head(kv)[1])>>
         \o (IF Head(kv)[2].t = "arr" THEN Head(kv)[2].a ELSE <<Head(kv)[2]>>)
         \o entriesFlatDeep(Tail(kv))

\* Object.entries(reply).flat(): key 1, value 1, key 2, value 2, ...
entriesFlat(kv) ==
  [i \in 1..(2 * Len(kv)) |->
     IF i % 2 = 1 THEN JStr(kv[(i + 1) \div 2][1]) ELSE kv[i \div 2][2]]

formatRedisResponse(reply, request) ==
  LET upstashEncoding == toLowerCase(request.enc)
      flat == IF reply.t = "obj" THEN JArr(entriesFlat(reply.kv)) ELSE reply
      encodeBase64 == upstashEncoding = "base64"
  IN IF encodeBase64 THEN encodeToBase64(flat) ELSE flat

\* ------------------------------------------------------------------------
\* jsonResponse
\* ------------------------------------------------------------------------
jsonResponse(body, status) == [status |-> status, body |-> body]

ErrorBody(message) == JObj(<< <<"error", JStr(message)>> >>)
ResultBody(value) == JObj(<< <<"result", value>> >>)

\* ------------------------------------------------------------------------
\* buildCommand
\* ------------------------------------------------------------------------
ParseErrorMsg == "Unable to parse request body as JSON."
BatchRedirectMsg ==
  "Expected a flat JSON array for a single command. For batch commands, please use /pipeline or /multi-exec."
NoCommandMsg == "No command provided in URL."
\* the messages of the validation library's errors
InvalidElementMsg == "ZodError: invalid_union: Expected string or number"
FirstElementMsg == "ZodError: custom: The first element must be the command name (a string)."

IsStringOrNumber(v) == v.t \in {"str", "num"}

\* genericCommandSchema.parse(v), v an array: "" when v is valid, the error's
\* message otherwise
genericCommandSchema(v) ==
  IF \E i \in 1..Len(v.a) : ~IsStringOrNumber(v.a[i]) THEN InvalidElementMsg
  ELSE IF ~(Len(v.a) > 0 /\ v.a[1].t = "str") THEN FirstElementMsg
  ELSE ""

\* the query parameters with _token among them
RECURSIVE queryArgsKeepToken(_)
queryArgsKeepToken(query) ==
  IF Len(query) = 0 THEN <<>>
  ELSE <<Head(query)[1], Head(query)[2]>> \o queryArgsKeepToken(Tail(query))

\* the query parameters except _token, key then value, in order
RECURSIVE queryArgs(_)
queryArgs(query) ==
  IF Len(query) = 0 THEN <<>>
  ELSE IF Head(query)[1] = "_token" THEN queryArgs(Tail(query))
  ELSE <<Head(query)[1], Head(query)[2]>> \o queryArgs(Tail(query))

\* pathname.split('/') with the leading part dropped and nothing filtered
pathSegmentsUnfiltered(path) == path

\* pathname.split('/').filter(Boolean)
pathSegments(path) == SelectSeq(path, LAMBDA part : part # "")

BuiltCommand(command, args) ==
  [ok |-> TRUE, command |-> command, args |-> args, error |-> ""]
BuildError(message) ==
  [ok |-> FALSE, command |-> "", args |-> <<>>, error |-> message]

\* request.text(), trimmed, is not ''
HasText(request) == request.body.kind \in {"invalid", "json"}

\* the body read for every method that can carry one
parsesBodyAnyBearing(request) == request.method \in {"POST", "PUT", "PATCH"} /\ HasText(request)

\* buildCommand reads the body of a request with this method and some text
parsesBody(request) == request.method = "POST" /\ HasText(request)

\* the body array taken as a command without looking for an array of arrays
bodyCommandNoRedirect(bodyParsed, request) ==
  IF genericCommandSchema(bodyParsed) # ""
  THEN BuildError(genericCommandSchema(bodyParsed))
  ELSE BuiltCommand(String(bodyParsed.a[1]),
                    MapString(Tail(bodyParsed.a)) \o queryArgs(request.query))

\* buildCommand when the parsed body is an array
bodyCommand(bodyParsed, request) ==
  IF Len(bodyParsed.a) > 0 /\ IsArray(bodyParsed.a[1])
  THEN BuildError(BatchRedirectMsg)
  ELSE IF genericCommandSchema(bodyParsed) # ""
  THEN BuildError(genericCommandSchema(bodyParsed))
  ELSE BuiltCommand(String(bodyParsed.a[1]),
                    MapString(Tail(bodyParsed.a)) \o queryArgs(request.query))

\* buildCommand when it falls back to the URL path
pathCommand(request) ==
  LET segments == pathSegments(request.path)
  IN IF Len(segments) = 0 THEN BuildError(NoCommandMsg)
     ELSE BuiltCommand(segments[1], Tail(segments) \o queryArgs(request.query))

\* buildCommand preferring the path whenever it names a command
buildCommandPathFirst(request) ==
  LET bodyParsed == IF parsesBody(request) /\ request.body.kind = "json"
                    THEN request.body.val ELSE JNull
  IN IF parsesBody(request) /\ request.body.kind = "invalid"
     THEN BuildError(ParseErrorMsg)
     ELSE IF Len(pathSegments(request.path)) > 0 THEN pathCommand(request)
     ELSE IF bodyParsed # JNull /\ IsArray(bodyParsed)
     THEN bodyCommand(bodyParsed, request)
     ELSE pathCommand(request)

\* buildCommand falling back to the path when the body array is not a command
buildCommandFallsBack(request) ==
  LET bodyParsed == IF parsesBody(request) /\ request.body.kind = "json"
                    THEN request.body.val ELSE JNull
  IN IF parsesBody(request) /\ request.body.kind = "invalid"
     THEN BuildError(ParseErrorMsg)
     ELSE IF bodyParsed # JNull /\ IsArray(bodyParsed) /\ bodyCommand(bodyParsed, request).ok
     THEN bodyCommand(bodyParsed, request)
     ELSE pathCommand(request)

buildCommand(request) ==
  LET bodyParsed == IF parsesBody(request) /\ request.body.kind = "json"
                    THEN request.body.val ELSE JNull
  IN IF parsesBody(request) /\ request.body.kind = "invalid"
     THEN BuildError(ParseErrorMsg)
     ELSE IF bodyParsed # JNull /\ IsArray(bodyParsed)
     THEN bodyCommand(bodyParsed, request)
     ELSE pathCommand(request)

\* ------------------------------------------------------------------------
\* Batch commands
\* ------------------------------------------------------------------------
BatchShapeMsg == "Expected a JSON array of command arrays"
\* (the source writes the hyphen of "non-empty" as U+2011)
EmptyCommandMsg == "Each command must be a non-empty array"
PipelineFailedMsg == "Pipeline failed"
TransactionFailedMsg == "Transaction failed"

\* a schema that checks the arrays but not what the commands are made of
batchCommandSchemaShallow(body) ==
  /\ body.kind = "json"
  /\ IsArray(body.val)
  /\ \A i \in 1..Len(body.val.a) : IsArray(body.val.a[i])

\* batchCommandSchema.parse(await request.json()) succeeds
batchCommandSchema(body) ==
  /\ body.kind = "json"
  /\ IsArray(body.val)
  /\ \A i \in 1..Len(body.val.a) :
       /\ IsArray(body.val.a[i])
       /\ \A j \in 1..Len(body.val.a[i].a) : IsStringOrNumber(body.val.a[i].a[j])

\* A command as the store client receives it
Cmd(command, args) == [command |-> command, args |-> args]

\* The loop of executeBatchCommands: the commands before the first empty one
RECURSIVE firstEmpty(_, _)
firstEmpty(commands, i) ==
  IF i > Len(commands) THEN 0
  ELSE IF Len(commands[i].a) = 0 THEN i
  ELSE firstEmpty(commands, i + 1)

\* the loop queueing the commands last to first
queuedCommandsReversed(commands) ==
  LET stop == firstEmpty(commands, 1)
      n == IF stop = 0 THEN Len(commands) ELSE stop - 1
  IN [i \in 1..n |-> Cmd(String(commands[n + 1 - i].a[1]), MapString(Tail(commands[n + 1 - i].a)))]

\* what the loop passes to executor.call, in order, until it throws or ends
queuedCommands(commands) ==
  LET stop == firstEmpty(commands, 1)
      n == IF stop = 0 THEN Len(commands) ELSE stop - 1
  IN [i \in 1..n |-> Cmd(String(commands[i].a[1]), MapString(Tail(commands[i].a)))]

\* ------------------------------------------------------------------------
\* The store, as the proxy sees it through the client
\* ------------------------------------------------------------------------
\* values the store replies with
Replies ==
  { JStr("OK"), JStr("bar"), JNum(1), JNull,
    JArr(<<JStr("bar"), JNull>>),
    JObj(<< <<"f", JStr("v")>> >>) }

\* the replies of the runs with several requests in flight
FewReplies == { JStr("OK") }

CommandErrorMsg == "ERR wrong kind of value"
ConnectionErrorMsg == "Connection is closed."

\* one element of what exec() resolves with: [error, value], and the command
\* the store ran to produce it
Pair(err, val, cmd) == [err |-> err, val |-> val, cmd |-> cmd]

\* the outcomes of one command at the store
PairsOf(cmd, replies) ==
  { Pair("", v, cmd) : v \in replies } \cup { Pair(CommandErrorMsg, JNull, cmd) }

\* ------------------------------------------------------------------------
\* redisClient: the provider of the store client
\* ------------------------------------------------------------------------
MaxSentinelLen == 5   \* characters in REDIS_SENTINELS
NumInjected == 2      \* clients a test can inject with setRedis

\* A text is the sequence of its characters
Chars == {"h", "7", ":", ","}
Texts == UNION { [1..n -> Chars] : n \in 0..MaxSentinelLen }

\* an optional environment variable
Unset == [set |-> FALSE, text |-> <<>>]
Text(t) == [set |-> TRUE, text |-> t]

\* the environment: REDIS_SENTINELS (the other variables keep their defaults)
Envs == { [REDIS_SENTINELS |-> v] : v \in {Unset} \cup { Text(t) : t \in Texts } }
DefaultEnv == [REDIS_SENTINELS |-> Unset]

\* String.prototype.split(sep)
RECURSIVE split(_, _)
split(text, sep) ==
  IF \A i \in 1..Len(text) : text[i] # sep THEN <<text>>
  ELSE LET at == CHOOSE i \in 1..Len(text) :
                   text[i] = sep /\ \A j \in 1..(i - 1) : text[j] # sep
       IN <<SubSeq(text, 1, at - 1)>> \o split(SubSeq(text, at + 1, Len(text)), sep)

Digits == {"0", "1", "2", "3", "4", "5", "6", "7", "8", "9"}

DigitValue(c) ==
  CASE c = "0" -> 0 [] c = "1" -> 1 [] c = "2" -> 2 [] c = "3" -> 3 [] c = "4" -> 4
    [] c = "5" -> 5 [] c = "6" -> 6 [] c = "7" -> 7 [] c = "8" -> 8 [] c = "9" -> 9

RECURSIVE DecimalValue(_)
DecimalValue(digits) ==
  IF Len(digits) = 0 THEN 0
  ELSE 10 * DecimalValue(SubSeq(digits, 1, Len(digits) - 1)) + DigitValue(digits[Len(digits)])

\* parseInt(text, 10) on a text without sign or blanks: the value of its
\* longest prefix of digits, NaN when that prefix is empty
parseInt(text) ==
  LET k == CHOOSE n \in 0..Len(text) :
             /\ \A i \in 1..n : text[i] \in Digits
             /\ n < Len(text) => text[n + 1] \notin Digits
  IN IF k = 0 THEN [nan |-> TRUE, n |-> 0]
     ELSE [nan |-> FALSE, n |-> DecimalValue(SubSeq(text, 1, k))]

\* one entry of REDIS_SENTINELS: const [host, port] = s.split(':') and the
\* test !host || !port || isNaN(parseInt(port, 10))
sentinelOf(s) ==
  LET parts == split(s, ":")
      host == parts[1]
      port == IF Len(parts) >= 2 THEN parts[2] ELSE <<>>
  IN IF host = <<>> \/ port = <<>> \/ parseInt(port).nan
     THEN [ok |-> FALSE, host |-> host, port |-> 0]
     ELSE [ok |-> TRUE, host |-> host, port |-> parseInt(port).n]

\* the text of a sequence of characters
RECURSIVE TextOf(_)
TextOf(chars) == IF Len(chars) = 0 THEN "" ELSE Head(chars) \o TextOf(Tail(chars))

InvalidSentinelMsg(s) ==
  "Invalid sentinel configuration: " \o TextOf(s) \o ". Expected format: host:port"

\* the stored client: undefined, a client the provider constructed, or a
\* client a test injected
Undefined == [kind |-> "undefined"]
NewRedis(options) == [kind |-> "client", options |-> options]
Injected == { [kind |-> "injected", id |-> i] : i \in 1..NumInjected }

\* what a call of getRedis() comes to: the client it returns (and stores),
\* how many clients it constructed, or the error it threw
Returned(client, built) == [threw |-> FALSE, error |-> "", client |-> client, built |-> built]
Thrown(message) == [threw |-> TRUE, error |-> message, client |-> Undefined, built |-> 0]

\* new Redis(...) from the environment
construct(environment) ==
  LET sentinels == environment.REDIS_SENTINELS
  IN IF sentinels.set /\ sentinels.text # <<>>
     THEN LET entries == split(sentinels.text, ",")
              parsed == [i \in 1..Len(entries) |-> sentinelOf(entries[i])]
              bad == { i \in 1..Len(entries) : ~parsed[i].ok }
          IN IF bad # {}
             THEN Thrown(InvalidSentinelMsg(entries[CHOOSE i \in bad : \A j \in bad : i <= j]))
             ELSE Returned(NewRedis([sentinels |->
                    [i \in 1..Len(entries) |-> [host |-> parsed[i].host, port |-> parsed[i].port]]]), 1)
     ELSE Returned(NewRedis([host |-> "localhost", port |-> 6379]), 1)

\* getRedis constructing a client at every call
getRedisAlwaysConstructs(stored, environment) == construct(environment)

getRedis(stored, environment) ==
  IF stored # Undefined THEN Returned(stored, 0) ELSE construct(environment)

\* ------------------------------------------------------------------------
\* State
\* ------------------------------------------------------------------------
VARIABLES
  pc,         \* pc[r]: where the handler of slot r is
  req,        \* req[r]: the request slot r handles
  executor,   \* executor[r]: the pipeline or transaction of the request
  awaited,    \* awaited[r]: the store operation the handler awaits
  resp,       \* resp[r]: the response of the handler
  ops,        \* ops[r]: the operations the handler has issued on the client
  storeLog,   \* the commands the store has run, in the order it ran them
  env,        \* the environment of the process
  redis,      \* redisClient's `redis`: the stored client
  epoch,      \* since the last setRedis (or the start): its argument, the
              \* clients constructed, the clients getRedis returned, the
              \* error of the last getRedis
  sigterm,    \* where the SIGTERM callback is
  conn,       \* the connection of the stored client to the store
  listening   \* the listener accepts requests

vars == <<pc, req, executor, awaited, resp, ops, storeLog, env, redis, epoch,
          sigterm, conn, listening>>
clientVars == <<env, redis, epoch>>
shutdownVars == <<sigterm, conn, listening>>

NoReq ==
  [method |-> "NONE", path |-> <<>>, auth |-> NoAuthHeader, query |-> <<>>,
   body |-> BlankBody, enc |-> "", encoding |-> "", format |-> ""]
NoResp == [status |-> 0, body |-> JNull]
NoCmd == Cmd("", <<>>)
NoExecutor == [mode |-> "none", queue |-> <<>>]
NotAwaiting == [state |-> "none", value |-> JNull, results |-> <<>>, error |-> ""]
Pending == [NotAwaiting EXCEPT !.state = "pending"]

Op(name, cmd) == [op |-> name, cmd |-> cmd]
LogEntry(r, cmd) == [r |-> r, cmd |-> cmd]

\* no request is being handled
Idle ==
  /\ pc = [r \in Reqs |-> "idle"]
  /\ req = [r \in Reqs |-> NoReq]
  /\ executor = [r \in Reqs |-> NoExecutor]
  /\ awaited = [r \in Reqs |-> NotAwaiting]
  /\ resp = [r \in Reqs |-> NoResp]
  /\ ops = [r \in Reqs |-> <<>>]
  /\ storeLog = <<>>

NoEpoch == [override |-> Undefined, built |-> 0, got |-> {}, error |-> ""]

\* the process has started under the environment: the module's own call of
\* getRedis() has returned the client it constructed
Started(environment) ==
  LET got == getRedis(Undefined, environment)
  IN /\ ~got.threw
     /\ env = environment
     /\ redis = got.client
     /\ epoch = [NoEpoch EXCEPT !.built = got.built, !.got = {got.client}]
     /\ sigterm = "none"
     /\ conn = "open"
     /\ listening = TRUE

Init == Idle /\ Started(DefaultEnv)

AllIdle == \A r \in Reqs : pc[r] = "idle"

\* ------------------------------------------------------------------------
\* handler: from the arrival of the request to its first suspension
\* ------------------------------------------------------------------------
\* route dispatching the batch endpoints before it authenticates
routeBatchBeforeAuth(request) ==
  IF request.path = HealthPath THEN "health"
  ELSE IF request.path = PipelinePath /\ request.method = "POST" THEN "pipeline"
  ELSE IF request.path = MultiExecPath /\ request.method = "POST" THEN "multi"
  ELSE IF ~checkAuth(request) THEN "unauthorized"
  ELSE "generic"

\* route authenticating before it looks at the path
routeAuthFirst(request) ==
  IF ~checkAuth(request) THEN "unauthorized"
  ELSE IF request.path = HealthPath THEN "health"
  ELSE IF request.path = PipelinePath /\ request.method = "POST" THEN "pipeline"
  ELSE IF request.path = MultiExecPath /\ request.method = "POST" THEN "multi"
  ELSE "generic"

route(request) ==
  IF request.path = HealthPath THEN "health"
  ELSE IF ~checkAuth(request) THEN "unauthorized"
  ELSE IF request.path = PipelinePath /\ request.method = "POST" THEN "pipeline"
  ELSE IF request.path = MultiExecPath /\ request.method = "POST" THEN "multi"
  ELSE "generic"

\* a call of getRedis() from the running program: the provider's state after it
Provide(got) ==
  /\ redis' = got.client
  /\ epoch' = [epoch EXCEPT !.built = @ + got.built,
                            !.got = IF got.threw THEN @ ELSE @ \cup {got.client},
                            !.error = got.error]
  /\ env' = env

handler(r, request) ==
  /\ pc[r] = "idle"
  /\ req' = [req EXCEPT ![r] = request]
  /\ CASE route(request) = "health" ->
            LET got == getRedis(redis, env)
            IN /\ Provide(got)
               /\ IF got.threw
                  THEN \* getRedis() throws and nothing catches it
                       /\ pc' = [pc EXCEPT ![r] = "threw"]
                       /\ UNCHANGED <<ops, awaited, resp>>
                  ELSE /\ pc' = [pc EXCEPT ![r] = "ping"]
                       /\ ops' = [ops EXCEPT ![r] = Append(@, Op("ping", NoCmd))]
                       /\ awaited' = [awaited EXCEPT ![r] = Pending]
                       /\ resp' = resp
       [] route(request) = "unauthorized" ->
            /\ pc' = [pc EXCEPT ![r] = "done"]
            /\ resp' = [resp EXCEPT ![r] = jsonResponse(ErrorBody("Unauthorized"), 401)]
            /\ UNCHANGED <<ops, awaited, clientVars>>
       [] route(request) \in {"pipeline", "multi"} ->
            /\ pc' = [pc EXCEPT ![r] = "json"]
            /\ UNCHANGED <<ops, awaited, resp, clientVars>>
       [] OTHER ->
            /\ pc' = [pc EXCEPT ![r] = "text"]
            /\ UNCHANGED <<ops, awaited, resp, clientVars>>
  /\ UNCHANGED <<executor, storeLog>>
  /\ UNCHANGED shutdownVars

\* ------------------------------------------------------------------------
\* /health: the store answers the ping
\* ------------------------------------------------------------------------
healthRespond(r, pong) ==
  /\ pc[r] = "ping"
  /\ IF pong
     THEN /\ pc' = [pc EXCEPT ![r] = "done"]
          /\ awaited' = [awaited EXCEPT ![r] = [@ EXCEPT !.state = "resolved", !.value = JStr("PONG")]]
          /\ resp' = [resp EXCEPT ![r] =
               jsonResponse(JObj(<< <<"status", JStr("healthy")>>, <<"redis", JStr("PONG")>> >>), 200)]
     ELSE \* the ping rejects and nothing catches it
          /\ pc' = [pc EXCEPT ![r] = "threw"]
          /\ awaited' = [awaited EXCEPT ![r] = [@ EXCEPT !.state = "rejected", !.error = ConnectionErrorMsg]]
          /\ resp' = resp
  /\ UNCHANGED <<req, executor, ops, storeLog, env, redis, epoch>>
  /\ UNCHANGED shutdownVars

\* ------------------------------------------------------------------------
\* handleBatchCommands, from the parsed body to the suspension on exec()
\* ------------------------------------------------------------------------
modeOf(request) == IF request.path = PipelinePath THEN "pipeline" ELSE "multi"

\* a pipeline whatever the mode
executorForPipelineOnly(mode) == "pipeline"

\* executeBatchCommands: which executor the mode selects
executorFor(mode) == IF mode = "pipeline" THEN "pipeline" ELSE "multi"

\* handleBatchCommands queueing into one executor that all requests share:
\* what the requests still executing have queued is in it too
handleBatchCommandsSharedExecutor(r) ==
  /\ pc[r] = "json"
  /\ IF ~batchCommandSchema(req[r].body)
     THEN /\ pc' = [pc EXCEPT ![r] = "done"]
          /\ resp' = [resp EXCEPT ![r] = jsonResponse(ErrorBody(BatchShapeMsg), 400)]
          /\ UNCHANGED <<executor, awaited, ops, clientVars>>
     ELSE LET commands == req[r].body.val.a
              mode == modeOf(req[r])
              others == { s \in Reqs : s # r /\ pc[s] = "exec" }
              shared == IF others = {} THEN <<>> ELSE executor[CHOOSE s \in others : TRUE].queue
              queue == shared \o queuedCommands(commands)
              queued == [i \in 1..Len(queue) |-> Op("queue", queue[i])]
              got == getRedis(redis, env)
          IN /\ Provide(got)
             /\ executor' = [executor EXCEPT ![r] = [mode |-> executorFor(mode), queue |-> queue]]
             /\ IF firstEmpty(commands, 1) # 0
                THEN /\ pc' = [pc EXCEPT ![r] = "done"]
                     /\ ops' = [ops EXCEPT ![r] = @ \o <<Op(executorFor(mode), NoCmd)>> \o queued]
                     /\ resp' = [resp EXCEPT ![r] = jsonResponse(ErrorBody(EmptyCommandMsg), 400)]
                     /\ awaited' = awaited
                ELSE /\ pc' = [pc EXCEPT ![r] = "exec"]
                     /\ ops' = [ops EXCEPT ![r] =
                          @ \o <<Op(executorFor(mode), NoCmd)>> \o queued \o <<Op("exec", NoCmd)>>]
                     /\ awaited' = [awaited EXCEPT ![r] = Pending]
                     /\ resp' = resp
  /\ UNCHANGED <<req, storeLog>>
  /\ UNCHANGED shutdownVars

\* handleBatchCommands stopping at an empty command and executing what it
\* has queued so far
handleBatchCommandsExecQueued(r) ==
  /\ pc[r] = "json"
  /\ IF ~batchCommandSchema(req[r].body)
     THEN /\ pc' = [pc EXCEPT ![r] = "done"]
          /\ resp' = [resp EXCEPT ![r] = jsonResponse(ErrorBody(BatchShapeMsg), 400)]
          /\ UNCHANGED <<executor, awaited, ops, clientVars>>
     ELSE LET commands == req[r].body.val.a
              mode == modeOf(req[r])
              queue == queuedCommands(commands)
              queued == [i \in 1..Len(queue) |-> Op("queue", queue[i])]
              got == getRedis(redis, env)
          IN /\ Provide(got)
             /\ IF got.threw
                THEN \* getRedis() throws; handleBatchCommands catches it
                     /\ pc' = [pc EXCEPT ![r] = "done"]
                     /\ resp' = [resp EXCEPT ![r] = jsonResponse(ErrorBody(got.error), 400)]
                     /\ UNCHANGED <<executor, awaited, ops>>
                ELSE /\ executor' = [executor EXCEPT ![r] = [mode |-> executorFor(mode), queue |-> queue]]
                     /\ pc' = [pc EXCEPT ![r] = "exec"]
                     /\ ops' = [ops EXCEPT ![r] =
                          @ \o <<Op(executorFor(mode), NoCmd)>> \o queued \o <<Op("exec", NoCmd)>>]
                     /\ awaited' = [awaited EXCEPT ![r] = Pending]
                     /\ resp' = resp
  /\ UNCHANGED <<req, storeLog>>
  /\ UNCHANGED shutdownVars

handleBatchCommands(r) ==
  /\ pc[r] = "json"
  /\ IF ~batchCommandSchema(req[r].body)
     THEN /\ pc' = [pc EXCEPT ![r] = "done"]
          /\ resp' = [resp EXCEPT ![r] = jsonResponse(ErrorBody(BatchShapeMsg), 400)]
          /\ UNCHANGED <<executor, awaited, ops, clientVars>>
     ELSE LET commands == req[r].body.val.a
              mode == modeOf(req[r])
              queue == queuedCommands(commands)
              queued == [i \in 1..Len(queue) |-> Op("queue", queue[i])]
              got == getRedis(redis, env)
          IN /\ Provide(got)
             /\ IF got.threw
                THEN \* getRedis() throws; handleBatchCommands catches it
                     /\ pc' = [pc EXCEPT ![r] = "done"]
                     /\ resp' = [resp EXCEPT ![r] = jsonResponse(ErrorBody(got.error), 400)]
                     /\ UNCHANGED <<executor, awaited, ops>>
                ELSE /\ executor' = [executor EXCEPT ![r] = [mode |-> executorFor(mode), queue |-> queue]]
                     /\ IF firstEmpty(commands, 1) # 0
                        THEN \* the loop throws; handleBatchCommands catches it
                             /\ pc' = [pc EXCEPT ![r] = "done"]
                             /\ ops' = [ops EXCEPT ![r] = @ \o <<Op(executorFor(mode), NoCmd)>> \o queued]
                             /\ resp' = [resp EXCEPT ![r] = jsonResponse(ErrorBody(EmptyCommandMsg), 400)]
                             /\ awaited' = awaited
                        ELSE /\ pc' = [pc EXCEPT ![r] = "exec"]
                             /\ ops' = [ops EXCEPT ![r] =
                                  @ \o <<Op(executorFor(mode), NoCmd)>> \o queued \o <<Op("exec", NoCmd)>>]
                             /\ awaited' = [awaited EXCEPT ![r] = Pending]
                             /\ resp' = resp
  /\ UNCHANGED <<req, storeLog>>
  /\ UNCHANGED shutdownVars

\* ------------------------------------------------------------------------
\* The store runs what exec() sent
\* ------------------------------------------------------------------------
\* A pipeline: the store runs the queued commands one at a time, in order; a
\* command that fails leaves its error in its pair and the rest still run.
StorePipelineStep(r, replies) ==
  /\ pc[r] = "exec"
  /\ awaited[r].state = "pending"
  /\ executor[r].mode = "pipeline"
  /\ Len(awaited[r].results) < Len(executor[r].queue)
  /\ LET cmd == executor[r].queue[Len(awaited[r].results) + 1]
     IN /\ \E pair \in PairsOf(cmd, replies) :
             awaited' = [awaited EXCEPT ![r].results = Append(@, pair)]
        /\ storeLog' = Append(storeLog, LogEntry(r, cmd))
  /\ UNCHANGED <<pc, req, executor, resp, ops, env, redis, epoch>>
  /\ UNCHANGED shutdownVars

\* exec() of a pipeline resolves once the store has answered every command
StorePipelineResolve(r) ==
  /\ pc[r] = "exec"
  /\ awaited[r].state = "pending"
  /\ executor[r].mode = "pipeline"
  /\ Len(awaited[r].results) = Len(executor[r].queue)
  /\ awaited' = [awaited EXCEPT ![r].state = "resolved"]
  /\ UNCHANGED <<pc, req, executor, resp, ops, storeLog, env, redis, epoch>>
  /\ UNCHANGED shutdownVars

\* A transaction: EXEC runs every queued command in one step of the store.
\* The reply may still be lost on its way back (lost), and exec() rejects.
StoreMultiExec(r, replies, lost) ==
  /\ pc[r] = "exec"
  /\ awaited[r].state = "pending"
  /\ executor[r].mode = "multi"
  /\ LET queue == executor[r].queue
     IN /\ \E results \in [1..Len(queue) -> UNION { PairsOf(queue[i], replies) : i \in 1..Len(queue) }] :
             /\ \A i \in 1..Len(queue) : results[i].cmd = queue[i]
             /\ awaited' = [awaited EXCEPT ![r] =
                  IF lost THEN [@ EXCEPT !.state = "rejected", !.error = ConnectionErrorMsg]
                  ELSE [@ EXCEPT !.state = "resolved", !.results = results]]
        /\ storeLog' = storeLog \o [i \in 1..Len(queue) |-> LogEntry(r, queue[i])]
  /\ UNCHANGED <<pc, req, executor, resp, ops, env, redis, epoch>>
  /\ UNCHANGED shutdownVars

\* exec() resolves with null: the transaction was discarded before it ran, or
\* the pipeline was given up
StoreExecNull(r) ==
  /\ pc[r] = "exec"
  /\ awaited[r].state = "pending"
  /\ awaited' = [awaited EXCEPT ![r] = [@ EXCEPT !.state = "null", !.results = <<>>]]
  /\ UNCHANGED <<pc, req, executor, resp, ops, storeLog, env, redis, epoch>>
  /\ UNCHANGED shutdownVars

\* exec() rejects: the connection is gone
StoreExecReject(r) ==
  /\ pc[r] = "exec"
  /\ awaited[r].state = "pending"
  /\ awaited' = [awaited EXCEPT ![r] =
       [@ EXCEPT !.state = "rejected", !.results = <<>>, !.error = ConnectionErrorMsg]]
  /\ UNCHANGED <<pc, req, executor, resp, ops, storeLog, env, redis, epoch>>
  /\ UNCHANGED shutdownVars

\* ------------------------------------------------------------------------
\* handleBatchCommands, after exec() has settled
\* ------------------------------------------------------------------------
\* one message for both modes
failedMsgPipelineOnly(mode) == PipelineFailedMsg

failedMsg(mode) == IF mode = "pipeline" THEN PipelineFailedMsg ELSE TransactionFailedMsg

\* results.map(([err, result]) => ...)
batchElement(pair, request) ==
  IF pair.err # "" THEN ErrorBody(pair.err)
  ELSE ResultBody(formatRedisResponse(pair.val, request))

\* a response that fails the whole batch on the first failed command
batchResponseFailFast(results, request) ==
  IF \E i \in 1..Len(results) : results[i].err # ""
  THEN LET first == CHOOSE i \in 1..Len(results) :
                      results[i].err # "" /\ \A j \in 1..(i - 1) : results[j].err = ""
       IN jsonResponse(ErrorBody(results[first].err), 400)
  ELSE jsonResponse(JArr([i \in 1..Len(results) |-> batchElement(results[i], request)]), 200)

batchResponse(results, request) ==
  jsonResponse(JArr([i \in 1..Len(results) |-> batchElement(results[i], request)]), 200)

handleBatchRespond(r) ==
  /\ pc[r] = "exec"
  /\ awaited[r].state \in {"resolved", "null", "rejected"}
  /\ pc' = [pc EXCEPT ![r] = "done"]
  /\ resp' = [resp EXCEPT ![r] =
       CASE awaited[r].state = "resolved" -> batchResponse(awaited[r].results, req[r])
         [] awaited[r].state = "null" -> jsonResponse(ErrorBody(failedMsg(modeOf(req[r]))), 400)
         [] OTHER -> jsonResponse(ErrorBody(awaited[r].error), 400)]
  /\ UNCHANGED <<req, executor, awaited, ops, storeLog, env, redis, epoch>>
  /\ UNCHANGED shutdownVars

\* ------------------------------------------------------------------------
\* The generic command
\* ------------------------------------------------------------------------
\* handler, from the body's text to the suspension on call()
handlerGeneric(r) ==
  /\ pc[r] = "text"
  /\ LET built == buildCommand(req[r])
         got == getRedis(redis, env)
     IN IF built.ok
        THEN /\ Provide(got)
             /\ IF got.threw
                THEN \* getRedis() throws; the handler catches it
                     /\ pc' = [pc EXCEPT ![r] = "done"]
                     /\ resp' = [resp EXCEPT ![r] = jsonResponse(ErrorBody(got.error), 400)]
                     /\ UNCHANGED <<ops, awaited>>
                ELSE /\ pc' = [pc EXCEPT ![r] = "call"]
                     /\ ops' = [ops EXCEPT ![r] = Append(@, Op("call", Cmd(built.command, built.args)))]
                     /\ awaited' = [awaited EXCEPT ![r] = Pending]
                     /\ resp' = resp
        ELSE /\ pc' = [pc EXCEPT ![r] = "done"]
             /\ resp' = [resp EXCEPT ![r] = jsonResponse(ErrorBody(built.error), 400)]
             /\ UNCHANGED <<ops, awaited, clientVars>>
  /\ UNCHANGED <<req, executor, storeLog>>
  /\ UNCHANGED shutdownVars

\* the command the handler of slot r has sent with call()
calledCmd(r) == ops[r][Len(ops[r])].cmd

\* the store runs the command and replies with a value or with an error
StoreCall(r, replies) ==
  /\ pc[r] = "call"
  /\ awaited[r].state = "pending"
  /\ \E pair \in PairsOf(calledCmd(r), replies) :
       awaited' = [awaited EXCEPT ![r] =
         IF pair.err = "" THEN [@ EXCEPT !.state = "resolved", !.value = pair.val]
         ELSE [@ EXCEPT !.state = "rejected", !.error = pair.err]]
  /\ storeLog' = Append(storeLog, LogEntry(r, calledCmd(r)))
  /\ UNCHANGED <<pc, req, executor, resp, ops, env, redis, epoch>>
  /\ UNCHANGED shutdownVars

\* call() rejects without the store having run the command
StoreCallReject(r) ==
  /\ pc[r] = "call"
  /\ awaited[r].state = "pending"
  /\ awaited' = [awaited EXCEPT ![r] = [@ EXCEPT !.state = "rejected", !.error = ConnectionErrorMsg]]
  /\ UNCHANGED <<pc, req, executor, resp, ops, storeLog, env, redis, epoch>>
  /\ UNCHANGED shutdownVars

\* a handler that sends the command again when call() rejects
handlerGenericRespondRetries(r) ==
  /\ pc[r] = "call"
  /\ awaited[r].state \in {"resolved", "rejected"}
  /\ IF awaited[r].state = "resolved"
     THEN /\ pc' = [pc EXCEPT ![r] = "done"]
          /\ resp' = [resp EXCEPT ![r] =
               jsonResponse(ResultBody(formatRedisResponse(awaited[r].value, req[r])), 200)]
          /\ UNCHANGED <<awaited, ops>>
     ELSE /\ ops' = [ops EXCEPT ![r] = Append(@, Op("call", calledCmd(r)))]
          /\ awaited' = [awaited EXCEPT ![r] = Pending]
          /\ UNCHANGED <<pc, resp>>
  /\ UNCHANGED <<req, executor, storeLog, env, redis, epoch>>
  /\ UNCHANGED shutdownVars

\* handler, after call() has settled
handlerGenericRespond(r) ==
  /\ pc[r] = "call"
  /\ awaited[r].state \in {"resolved", "rejected"}
  /\ pc' = [pc EXCEPT ![r] = "done"]
  /\ resp' = [resp EXCEPT ![r] =
       IF awaited[r].state = "resolved"
       THEN jsonResponse(ResultBody(formatRedisResponse(awaited[r].value, req[r])), 200)
       ELSE jsonResponse(ErrorBody(awaited[r].error), 400)]
  /\ UNCHANGED <<req, executor, awaited, ops, storeLog, env, redis, epoch>>
  /\ UNCHANGED shutdownVars

\* ------------------------------------------------------------------------
\* The response is sent and the slot is free again
\* ------------------------------------------------------------------------
Forget(log, r) == SelectSeq(log, LAMBDA e : e.r # r)

Recycle(r) ==
  /\ pc[r] \in {"done", "threw"}
  /\ pc' = [pc EXCEPT ![r] = "idle"]
  /\ req' = [req EXCEPT ![r] = NoReq]
  /\ executor' = [executor EXCEPT ![r] = NoExecutor]
  /\ awaited' = [awaited EXCEPT ![r] = NotAwaiting]
  /\ resp' = [resp EXCEPT ![r] = NoResp]
  /\ ops' = [ops EXCEPT ![r] = <<>>]
  /\ storeLog' = Forget(storeLog, r)
  /\ UNCHANGED clientVars
  /\ UNCHANGED shutdownVars

\* ------------------------------------------------------------------------
\* Specifications
\* ------------------------------------------------------------------------
\* One request at a time, over every request of Requests
Next ==
  \/ \E r \in Reqs : AllIdle /\ \E request \in Requests : handler(r, request)
  \/ \E r \in Reqs, pong \in BOOLEAN : healthRespond(r, pong)
  \/ \E r \in Reqs : handleBatchCommands(r)
  \/ \E r \in Reqs : StorePipelineStep(r, Replies)
  \/ \E r \in Reqs : StorePipelineResolve(r)
  \/ \E r \in Reqs, lost \in BOOLEAN : StoreMultiExec(r, Replies, lost)
  \/ \E r \in Reqs : StoreExecNull(r)
  \/ \E r \in Reqs : StoreExecReject(r)
  \/ \E r \in Reqs : handleBatchRespond(r)
  \/ \E r \in Reqs : handlerGeneric(r)
  \/ \E r \in Reqs : StoreCall(r, Replies)
  \/ \E r \in Reqs : StoreCallReject(r)
  \/ \E r \in Reqs : handlerGenericRespond(r)
  \/ \E r \in Reqs : Recycle(r)

Spec == Init /\ [][Next]_vars

\* ------------------------------------------------------------------------
\* Several requests in flight at once, each slot handling one request
\* ------------------------------------------------------------------------
BatchOf(path, commands) ==
  [method |-> "POST", path |-> path, auth |-> Bearer(AUTH_TOKEN), query |-> <<>>,
   body |-> JsonBody(JArr(commands)), enc |-> "", encoding |-> "", format |-> ""]

ConcRequests ==
  { BatchOf(PipelinePath, <<JArr(<<JStr("set"), JStr("k"), JStr("v")>>), JArr(<<JStr("get"), JStr("k")>>)>>),
    BatchOf(MultiExecPath, <<JArr(<<JStr("incr"), JStr("n")>>), JArr(<<JStr("get"), JStr("n")>>)>>),
    BatchOf(MultiExecPath, <<JArr(<<JStr("incr"), JStr("n")>>), JArr(<<>>)>>),
    [method |-> "GET", path |-> <<"del", "k">>, auth |-> Bearer(AUTH_TOKEN), query |-> <<>>,
     body |-> BlankBody, enc |-> "", encoding |-> "", format |-> ""] }

ConcNext ==
  \/ \E r \in Reqs : \E request \in ConcRequests : handler(r, request)
  \/ \E r \in Reqs : handleBatchCommands(r)
  \/ \E r \in Reqs : StorePipelineStep(r, FewReplies)
  \/ \E r \in Reqs : StorePipelineResolve(r)
  \/ \E r \in Reqs, lost \in BOOLEAN : StoreMultiExec(r, FewReplies, lost)
  \/ \E r \in Reqs : StoreExecNull(r)
  \/ \E r \in Reqs : StoreExecReject(r)
  \/ \E r \in Reqs : handleBatchRespond(r)
  \/ \E r \in Reqs : handlerGeneric(r)
  \/ \E r \in Reqs : StoreCall(r, FewReplies)
  \/ \E r \in Reqs : StoreCallReject(r)
  \/ \E r \in Reqs : handlerGenericRespond(r)

ConcSpec == Init /\ [][ConcNext]_vars

\* ------------------------------------------------------------------------
\* Properties
\* ------------------------------------------------------------------------
TypeOK ==
  /\ pc \in [Reqs -> {"idle", "json", "text", "ping", "exec", "call", "done", "threw"}]
  /\ \A r \in Reqs : pc[r] = "idle" <=> req[r] = NoReq
  /\ \A r \in Reqs : resp[r] # NoResp <=> pc[r] = "done"

Active(r) == pc[r] # "idle"
Done(r) == pc[r] = "done"

\* the commands the store has run for slot r, in the order it ran them
RanFor(r) == SelectSeq(storeLog, LAMBDA e : e.r = r)

\* the token of an `Authorization: Bearer <token>` header, "" without one
BearerToken(request) == IF request.auth.pre = "Bearer " THEN request.auth.rest ELSE ""

\* the request presents the secret through either channel
PresentsSecret(request) ==
  \/ BearerToken(request) = AUTH_TOKEN
  \/ \E i \in 1..Len(request.query) : request.query[i] = <<"_token", AUTH_TOKEN>>

Unauthorized401 == jsonResponse(ErrorBody("Unauthorized"), 401)

\* C1: a request whose path is not /health and that presents the secret in
\* neither channel (or whose token checkAuth refuses) gets 401
\* {error: "Unauthorized"} and nothing else happens: no executor is created,
\* no operation is issued on the client, nothing is awaited and the store
\* runs nothing for it.
C1_UnauthorizedStops ==
  \A r \in Reqs :
    (/\ Active(r)
     /\ req[r].path # HealthPath
     /\ (~PresentsSecret(req[r]) \/ ~checkAuth(req[r])))
    => /\ Done(r)
       /\ resp[r] = Unauthorized401
       /\ ops[r] = <<>>
       /\ executor[r] = NoExecutor
       /\ awaited[r] = NotAwaiting
       /\ RanFor(r) = <<>>

\* a POST /pipeline with a malformed body and no token has been answered
C1_Witness ==
  \E r \in Reqs :
    /\ Done(r)
    /\ req[r].method = "POST"
    /\ req[r].path = PipelinePath
    /\ req[r].body = InvalidBody
    /\ req[r].auth = NoAuthHeader
    /\ req[r].query = <<>>
    /\ resp[r] = Unauthorized401

Rejected(r) == Done(r) /\ resp[r] = Unauthorized401

\* C2 as stated: a request (not /health) is accepted if and only if either
\* channel carries the secret, whatever the other channel holds.
C2_EitherChannel ==
  \A r \in Reqs :
    (Active(r) /\ req[r].path # HealthPath)
    => (~Rejected(r) <=> PresentsSecret(req[r]))

\* the value of the first _token query parameter, "" without one
FirstQueryToken(request) ==
  LET at == { i \in 1..Len(request.query) : request.query[i][1] = "_token" }
  IN IF at = {} THEN ""
     ELSE request.query[CHOOSE i \in at : \A j \in at : i <= j][2]

\* C2 amended: the header takes precedence. A request is accepted if and only
\* if its non-empty bearer token is the secret, or it has no (or an empty)
\* bearer token and its first _token query parameter is the secret.
C2_HeaderFirst ==
  \A r \in Reqs :
    (Active(r) /\ req[r].path # HealthPath)
    => (~Rejected(r) <=>
          \/ BearerToken(req[r]) = AUTH_TOKEN
          \/ BearerToken(req[r]) = "" /\ FirstQueryToken(req[r]) = AUTH_TOKEN)

\* a request with a wrong bearer token and the secret in _token is rejected,
\* and one with an empty bearer token and the secret in _token is accepted
C2_Witness ==
  \E r \in Reqs :
    /\ Rejected(r)
    /\ req[r].auth = Bearer("WRONG_TOKEN")
    /\ req[r].query = << <<"_token", AUTH_TOKEN>> >>

\* the command a batch element [name, a1, ..., an] stands for
ExpectedCmd(c) ==
  [command |-> String(c.a[1]), args |-> [j \in 1..(Len(c.a) - 1) |-> String(c.a[j + 1])]]

\* the mode of the endpoint the request was sent to
EndpointMode(request) == IF request.path = PipelinePath THEN "pipeline" ELSE "multi"

\* slot r has executed a batch none of whose commands is empty
ExecutesBatch(r) ==
  /\ pc[r] \in {"exec", "done"}
  /\ executor[r] # NoExecutor
  /\ \A i \in 1..Len(req[r].body.val.a) : Len(req[r].body.val.a[i].a) > 0

\* C3: in both modes the commands of a batch are queued into one executor in
\* the order given, the executor is executed once, and exec() yields one pair
\* per command, the i-th for the i-th command; the response is then 200 with
\* an array of as many elements, the empty array for the empty batch.
C3_BatchOrder ==
  \A r \in Reqs :
    ExecutesBatch(r) =>
      LET commands == req[r].body.val.a
          n == Len(commands)
          mode == EndpointMode(req[r])
          results == awaited[r].results
      IN /\ executor[r].mode = mode
         /\ executor[r].queue = [i \in 1..n |-> ExpectedCmd(commands[i])]
         /\ ops[r] = <<Op(mode, NoCmd)>>
                       \o [i \in 1..n |-> Op("queue", ExpectedCmd(commands[i]))]
                       \o <<Op("exec", NoCmd)>>
         /\ awaited[r].state = "resolved" =>
              /\ Len(results) = n
              /\ \A i \in 1..n : results[i].cmd = ExpectedCmd(commands[i])
              /\ Done(r) =>
                   /\ resp[r].status = 200
                   /\ IsArray(resp[r].body)
                   /\ Len(resp[r].body.a) = n
                   /\ n = 0 => resp[r] = jsonResponse(JArr(<<>>), 200)

\* a transaction of two commands has been executed and answered
C3_Witness ==
  \E r \in Reqs :
    /\ Done(r)
    /\ req[r].path = MultiExecPath
    /\ Len(executor[r].queue) = 2
    /\ executor[r].queue[1] # executor[r].queue[2]
    /\ awaited[r].state = "resolved"
    /\ resp[r].status = 200
    /\ Len(resp[r].body.a) = 2

\* C5: when a pipeline has executed, the response is 200 with one element per
\* command in the batch's order: {error: message} for a command that failed,
\* {result: formatted value} for every other; the store ran every command of
\* the batch and the failure of one leaves the others' elements as they are.
C5_PartialFailures ==
  \A r \in Reqs :
    (Done(r) /\ executor[r].mode = "pipeline" /\ awaited[r].state = "resolved")
    => LET results == awaited[r].results
           n == Len(req[r].body.val.a)
       IN /\ resp[r].status = 200
          /\ IsArray(resp[r].body)
          /\ Len(resp[r].body.a) = n
          /\ Len(results) = n
          /\ \A i \in 1..n :
               resp[r].body.a[i] =
                 IF results[i].err # "" THEN JObj(<< <<"error", JStr(results[i].err)>> >>)
                 ELSE JObj(<< <<"result", formatRedisResponse(results[i].val, req[r])>> >>)
          /\ RanFor(r) = [i \in 1..n |-> LogEntry(r, ExpectedCmd(req[r].body.val.a[i]))]

\* a pipeline whose first command failed and whose second replied "bar" has
\* been answered, Base64 requested
C5_Witness ==
  \E r \in Reqs :
    /\ Done(r)
    /\ executor[r].mode = "pipeline"
    /\ req[r].enc = "base64"
    /\ Len(awaited[r].results) = 2
    /\ awaited[r].results[1].err = CommandErrorMsg
    /\ awaited[r].results[2].err = ""
    /\ awaited[r].results[2].val = JStr("bar")
    /\ resp[r] = jsonResponse(JArr(<< ErrorBody(CommandErrorMsg), ResultBody(JStr("YmFy")) >>), 200)

\* C6: when exec() yields null the response is 400 with the single object
\* {error: "Pipeline failed"} (pipeline) or {error: "Transaction failed"}
\* (multi), not an array.
C6_NullResult ==
  \A r \in Reqs :
    (Done(r) /\ awaited[r].state = "null")
    => /\ resp[r].status = 400
       /\ resp[r].body =
            JObj(<< <<"error",
                      JStr(IF req[r].path = PipelinePath THEN "Pipeline failed"
                           ELSE "Transaction failed")>> >>)

\* a transaction whose exec() yielded null has been answered
C6_Witness ==
  \E r \in Reqs :
    /\ Done(r)
    /\ awaited[r].state = "null"
    /\ req[r].path = MultiExecPath
    /\ Len(executor[r].queue) = 2
    /\ resp[r].status = 400

\* the body is not a JSON array of arrays of strings and numbers
MalformedBatch(body) ==
  \/ body.kind # "json"
  \/ ~IsArray(body.val)
  \/ \E i \in 1..Len(body.val.a) :
       \/ ~IsArray(body.val.a[i])
       \/ \E j \in 1..Len(body.val.a[i].a) : body.val.a[i].a[j].t \notin {"str", "num"}

\* C7: an authenticated POST /pipeline or POST /multi-exec whose body is not
\* a JSON array of arrays of strings and numbers is answered 400 with
\* {error: "Expected a JSON array of command arrays"}; no executor is created,
\* no operation is issued and the store runs nothing.
C7_MalformedBatch ==
  \A r \in Reqs :
    (/\ pc[r] \notin {"idle", "json"}
     /\ req[r].method = "POST"
     /\ req[r].path \in {PipelinePath, MultiExecPath}
     /\ ~Rejected(r)
     /\ MalformedBatch(req[r].body))
    => /\ Done(r)
       /\ resp[r] = jsonResponse(JObj(<< <<"error", JStr("Expected a JSON array of command arrays")>> >>), 400)
       /\ executor[r] = NoExecutor
       /\ ops[r] = <<>>
       /\ RanFor(r) = <<>>

\* a POST /multi-exec whose body has a command holding a boolean has been
\* refused
C7_Witness ==
  \E r \in Reqs :
    /\ Done(r)
    /\ req[r].path = MultiExecPath
    /\ req[r].body = JsonBody(JArr(<<JArr(<<JStr("get"), JBool(TRUE)>>)>>))
    /\ resp[r] = jsonResponse(ErrorBody(BatchShapeMsg), 400)

\* slot r's request went down the single-command path and buildCommand has
\* returned or thrown
IsGeneric(r) ==
  /\ pc[r] \in {"call", "done"}
  /\ req[r].path # HealthPath
  /\ ~Rejected(r)
  /\ ~(req[r].method = "POST" /\ req[r].path \in {PipelinePath, MultiExecPath})

IsArrayBody(body) == body.kind = "json" /\ IsArray(body.val)

\* the body is a flat JSON array [name, a1, ..., an], name a string
ValidFlatBody(body) ==
  /\ IsArrayBody(body)
  /\ Len(body.val.a) > 0
  /\ body.val.a[1].t = "str"
  /\ \A i \in 1..Len(body.val.a) : body.val.a[i].t \in {"str", "num"}

BodyArgs(body) == [j \in 1..(Len(body.val.a) - 1) |-> String(body.val.a[j + 1])]

\* the non-empty segments of the path
Segments(request) == SelectSeq(request.path, LAMBDA part : part # "")

\* what the query contributes: key, value of each parameter but _token
ExpectedQueryArgs(query) ==
  LET kept == SelectSeq(query, LAMBDA pair : pair[1] # "_token")
  IN [i \in 1..(2 * Len(kept)) |->
        IF i % 2 = 1 THEN kept[(i + 1) \div 2][1] ELSE kept[i \div 2][2]]

\* the command slot r sent is the one the path names
PathUsed(r) ==
  /\ ops[r] # <<>>
  /\ Segments(req[r]) # <<>>
  /\ ops[r][1] = Op("call", [command |-> Segments(req[r])[1],
                             args |-> Tail(Segments(req[r])) \o ExpectedQueryArgs(req[r].query)])

\* the command slot r sent is the one the body gives
BodyUsed(r) ==
  /\ ValidFlatBody(req[r].body)
  /\ ops[r] = <<Op("call", [command |-> req[r].body.val.a[1].s,
                         args |-> BodyArgs(req[r].body) \o ExpectedQueryArgs(req[r].query)])>>

\* C8 as stated: whenever the body is a valid flat array the command is the
\* body's, whatever the path; the path is used only when the body is absent,
\* blank or not an array.
C8_BodyWins ==
  \A r \in Reqs :
    IsGeneric(r) =>
      /\ ValidFlatBody(req[r].body) => BodyUsed(r)
      /\ PathUsed(r) => ~IsArrayBody(req[r].body)

\* C8 amended: whenever a POST request carries a valid flat array body the
\* command is the body's, whatever the path; the path is used only when the
\* method is not POST or the body is absent, blank or not an array.
C8_PostBodyWins ==
  \A r \in Reqs :
    IsGeneric(r) =>
      /\ (req[r].method = "POST" /\ ValidFlatBody(req[r].body)) => BodyUsed(r)
      /\ PathUsed(r) => (req[r].method # "POST" \/ ~IsArrayBody(req[r].body))

\* POST /set/foo with the body ["echo", "Hello"] has sent echo Hello
C8_Witness ==
  \E r \in Reqs :
    /\ IsGeneric(r)
    /\ req[r].method = "POST"
    /\ req[r].path = <<"set", "foo">>
    /\ req[r].body = JsonBody(JArr(<<JStr("echo"), JStr("Hello")>>))
    /\ req[r].query = <<>>
    /\ ops[r] = <<Op("call", Cmd("echo", <<"Hello">>))>>

\* the body is a non-empty JSON array whose elements are all arrays
ArrayOfArrays(body) ==
  /\ IsArrayBody(body)
  /\ Len(body.val.a) > 0
  /\ \A i \in 1..Len(body.val.a) : IsArray(body.val.a[i])

RedirectResponse ==
  jsonResponse(JObj(<< <<"error", JStr("Expected a flat JSON array for a single command. For batch commands, please use /pipeline or /multi-exec.")>> >>), 400)

\* C9 as stated: every request to the single-command path whose body is an
\* array of arrays is answered 400 with the batch-redirect message, whatever
\* the path, and no command is sent to the store.
C9_Redirect ==
  \A r \in Reqs :
    (IsGeneric(r) /\ ArrayOfArrays(req[r].body))
    => /\ Done(r)
       /\ resp[r] = RedirectResponse
       /\ ops[r] = <<>>
       /\ RanFor(r) = <<>>

\* C9 amended: every POST request to the single-command path whose body is
\* an array of arrays is answered 400 with the batch-redirect message,
\* whatever the path, and no command is sent to the store.
C9_PostRedirect ==
  \A r \in Reqs :
    (IsGeneric(r) /\ req[r].method = "POST" /\ ArrayOfArrays(req[r].body))
    => /\ Done(r)
       /\ resp[r] = RedirectResponse
       /\ ops[r] = <<>>
       /\ RanFor(r) = <<>>

\* POST /set/foo with the body [["set", "k", 1]] has been refused
C9_Witness ==
  \E r \in Reqs :
    /\ IsGeneric(r)
    /\ req[r].method = "POST"
    /\ req[r].path = <<"set", "foo">>
    /\ req[r].body = JsonBody(JArr(<<JArr(<<JStr("set"), JStr("k"), JNum(1)>>)>>))
    /\ resp[r] = RedirectResponse

LogPositions(r) == { i \in 1..Len(storeLog) : storeLog[i].r = r }

\* no position between two positions of S is missing from S
Contiguous(S) == \A i \in S : \A j \in S : \A k \in i..j : k \in S

\* C4: the commands of a POST /multi-exec batch run at the store as one unit
\* whatever else is in flight: no command of another request runs between
\* two of them, and either all of them ran, in order, or the response is a
\* single 400 error for the whole batch. (That commands of other requests do
\* run between the commands of a pipeline is the state C4_Witness describes.)
C4_MultiAtomic ==
  \A r \in Reqs :
    (Active(r) /\ req[r].path = MultiExecPath /\ req[r].method = "POST")
    => LET queue == executor[r].queue
           ranAll == RanFor(r) = [i \in 1..Len(queue) |-> LogEntry(r, queue[i])]
       IN /\ Contiguous(LogPositions(r))
          /\ RanFor(r) = <<>> \/ ranAll
          /\ Done(r) =>
               \/ ranAll
               \/ resp[r].status = 400 /\ resp[r].body.t = "obj"
          /\ (Done(r) /\ resp[r].status = 200) => ranAll

\* a transaction ran as one unit between the two commands of a pipeline
C4_Witness ==
  \E r \in Reqs : \E s \in Reqs :
    /\ req[r].path = MultiExecPath
    /\ req[s].path = PipelinePath
    /\ Done(r) /\ resp[r].status = 200
    /\ Done(s) /\ resp[s].status = 200
    /\ Len(storeLog) = 4
    /\ storeLog[1].r = s
    /\ storeLog[2].r = r
    /\ storeLog[3].r = r
    /\ storeLog[4].r = s

\* ------------------------------------------------------------------------
\* C11: /health
\* ------------------------------------------------------------------------
HealthyBody(pong) == JObj(<< <<"status", JStr("healthy")>>, <<"redis", pong>> >>)

\* C11: a request whose path is /health, whatever its method and whatever
\* token it carries or lacks, is never answered 401: the handler issues one
\* ping on the client and nothing else (no executor, no command at the
\* store), and once the ping is answered the response is 200 with
\* {status: "healthy", redis: <the ping's reply>}.
C11_HealthBypassesAuth ==
  \A r \in Reqs :
    (Active(r) /\ req[r].path = HealthPath)
    => /\ ops[r] = <<Op("ping", NoCmd)>>
       /\ executor[r] = NoExecutor
       /\ RanFor(r) = <<>>
       /\ ~Rejected(r)
       /\ awaited[r].state = "resolved" => Done(r)
       /\ Done(r) => /\ awaited[r].state = "resolved"
                     /\ resp[r] = jsonResponse(HealthyBody(awaited[r].value), 200)

\* a PUT /health with a wrong bearer token and a wrong _token has been
\* answered 200 healthy
C11_Witness ==
  \E r \in Reqs :
    /\ Done(r)
    /\ req[r].path = HealthPath
    /\ req[r].method = "PUT"
    /\ req[r].auth = Bearer("WRONG_TOKEN")
    /\ req[r].query = << <<"_token", "WRONG_TOKEN">> >>
    /\ ~checkAuth(req[r])
    /\ resp[r] = jsonResponse(HealthyBody(JStr("PONG")), 200)

\* ------------------------------------------------------------------------
\* C12: every request is answered 200, 400 or 401
\* ------------------------------------------------------------------------
\* the body is a JSON object whose only field is a string `error`
IsErrorBody(body) ==
  /\ body.t = "obj"
  /\ Len(body.kv) = 1
  /\ body.kv[1][1] = "error"
  /\ body.kv[1][2].t = "str"

\* C12: on every route and for every outcome of the store, the handler never
\* ends in an exception nobody catches: it ends with a response whose status
\* is 200, 400 or 401, and every response that is not 200 is a JSON object
\* with a string `error` field.
C12_AlwaysAnswers ==
  \A r \in Reqs :
    /\ pc[r] # "threw"
    /\ Done(r) => /\ resp[r].status \in {200, 400, 401}
                  /\ resp[r].status # 200 => IsErrorBody(resp[r].body)

\* what does hold: off /health every finished request has such a response
C12_OffHealth ==
  \A r \in Reqs :
    (Active(r) /\ req[r].path # HealthPath)
    => /\ pc[r] # "threw"
       /\ Done(r) => /\ resp[r].status \in {200, 400, 401}
                     /\ resp[r].status # 200 => IsErrorBody(resp[r].body)

\* ------------------------------------------------------------------------
\* The response formatter, over every reply shape and every header
\* ------------------------------------------------------------------------
\* what the store replies with in FormatSpec: strings, "OK", numbers, null,
\* booleans, arrays (nested, with mappings in them) and mappings (with array
\* and mapping values)
FormatReplies ==
  { JStr("Hello"), JStr("OK"), JStr(""), JNum(1), JNull, JBool(TRUE),
    JArr(<<>>),
    JArr(<<JStr("bar"), JStr("OK"), JNull, JNum(1), JBool(FALSE)>>),
    JArr(<<JArr(<<JStr("OK"), JStr("v")>>), JStr("f")>>),
    JArr(<<JObj(<< <<"f", JStr("v")>>, <<"bar", JStr("OK")>> >>)>>),
    JObj(<<>>),
    JObj(<< <<"f", JStr("v")>> >>),
    JObj(<< <<"f", JStr("v")>>, <<"bar", JArr(<<JStr("v"), JStr("OK")>>)>> >>),
    JObj(<< <<"f", JObj(<< <<"bar", JStr("v")>> >>)>>, <<"v", JNull>> >>) }

\* an authenticated GET /get/foo and an authenticated POST /pipeline of two
\* commands, under every combination of the three headers
FormatBatch == JArr(<<JArr(<<JStr("get"), JStr("k")>>), JArr(<<JStr("get"), JStr("f")>>)>>)

FormatRequests ==
  { [method |-> IF batch THEN "POST" ELSE "GET",
     path |-> IF batch THEN PipelinePath ELSE <<"get", "foo">>,
     auth |-> Bearer(AUTH_TOKEN), query |-> <<>>,
     body |-> IF batch THEN JsonBody(FormatBatch) ELSE BlankBody,
     enc |-> e, encoding |-> e2, format |-> f] :
      batch \in BOOLEAN, e \in {"", "base64", "BASE64"}, e2 \in {"", "base64"},
      f \in {"", "resp2"} }

FormatNext ==
  \/ \E r \in Reqs : AllIdle /\ \E request \in FormatRequests : handler(r, request)
  \/ \E r \in Reqs : handleBatchCommands(r)
  \/ \E r \in Reqs : StorePipelineStep(r, FormatReplies)
  \/ \E r \in Reqs : StorePipelineResolve(r)
  \/ \E r \in Reqs : handleBatchRespond(r)
  \/ \E r \in Reqs : handlerGeneric(r)
  \/ \E r \in Reqs : StoreCall(r, FormatReplies)
  \/ \E r \in Reqs : handlerGenericRespond(r)
  \/ \E r \in Reqs : Recycle(r)

FormatSpec == Init /\ [][FormatNext]_vars

\* the (reply, result) pairs of the 200 response of slot r: what the store
\* replied and what the response holds in its place
Formatted(r) ==
  IF ~(Done(r) /\ resp[r].status = 200) THEN {}
  ELSE IF route(req[r]) = "generic"
  THEN { [reply |-> awaited[r].value, result |-> resp[r].body.kv[1][2]] }
  ELSE IF route(req[r]) \in {"pipeline", "multi"}
  THEN { [reply |-> awaited[r].results[i].val, result |-> resp[r].body.a[i].kv[1][2]] :
           i \in { j \in 1..Len(awaited[r].results) : awaited[r].results[j].err = "" } }
  ELSE {}

\* the request asks for Base64 through the Upstash-Encoding header
AsksBase64(request) == request.enc \in {"base64", "BASE64"}

\* ------------------------------------------------------------------------
\* C13: encodeToBase64
\* ------------------------------------------------------------------------
\* Base64 (RFC 4648, with padding) of the UTF-8 bytes of a string
Base64Text(s) ==
  CASE s = "" -> ""
    [] s = "f" -> "Zg=="
    [] s = "v" -> "dg=="
    [] s = "bar" -> "YmFy"
    [] s = "Hello" -> "SGVsbG8="

\* w is v with every string leaf but "OK" replaced by its Base64, and
\* nothing else changed: arrays keep their length and order, mappings their
\* keys, null, booleans and numbers their value
RECURSIVE EncodedAs(_, _)
EncodedAs(v, w) ==
  CASE v.t = "str" -> w = (IF v.s = "OK" THEN v ELSE JStr(Base64Text(v.s)))
    [] v.t = "arr" -> /\ w.t = "arr"
                      /\ Len(w.a) = Len(v.a)
                      /\ \A i \in 1..Len(v.a) : EncodedAs(v.a[i], w.a[i])
    [] v.t = "obj" -> /\ w.t = "obj"
                      /\ Len(w.kv) = Len(v.kv)
                      /\ \A i \in 1..Len(v.kv) :
                           /\ w.kv[i][1] = v.kv[i][1]
                           /\ EncodedAs(v.kv[i][2], w.kv[i][2])
    [] OTHER -> w = v

\* C13: encodeToBase64 preserves structure. Whenever a reply that is not a
\* mapping is returned under Base64 encoding, the result is the reply with
\* every string leaf other than "OK" replaced by the Base64 of its UTF-8
\* bytes, "OK" unchanged at any depth, arrays of the same length and order,
\* mappings with the same keys (not encoded), and null, booleans and numbers
\* unchanged.
C13_Base64Structure ==
  \A r \in Reqs : \A f \in Formatted(r) :
    (AsksBase64(req[r]) /\ f.reply.t # "obj") => EncodedAs(f.reply, f.result)

\* a nested array with "OK" at depth two and a mapping inside an array have
\* been returned encoded
C13_Witness ==
  \E r \in Reqs :
    /\ AsksBase64(req[r])
    /\ [reply |-> JArr(<<JArr(<<JStr("OK"), JStr("v")>>), JStr("f")>>),
        result |-> JArr(<<JArr(<<JStr("OK"), JStr("dg==")>>), JStr("Zg==")>>)] \in Formatted(r)
    /\ [reply |-> JArr(<<JObj(<< <<"f", JStr("v")>>, <<"bar", JStr("OK")>> >>)>>),
        result |-> JArr(<<JObj(<< <<"f", JStr("dg==")>>, <<"bar", JStr("OK")>> >>)>>)] \in Formatted(r)

\* ------------------------------------------------------------------------
\* C14: the headers that enable Base64
\* ------------------------------------------------------------------------
\* the reply as it is returned without encoding: a mapping flattened into
\* key, value, key, value, ..., anything else as it is
Unencoded(reply) == IF reply.t = "obj" THEN JArr(entriesFlat(reply.kv)) ELSE reply

\* C14: Base64 is enabled by `Upstash-Encoding: base64` and by
\* `Encoding: base64` alike. With either header the results of generic and
\* batch responses are Base64-encoded recursively (except "OK"); with
\* neither they are returned unencoded.
C14_EitherHeader ==
  \A r \in Reqs : \A f \in Formatted(r) :
    req[r].format = ""
    => IF AsksBase64(req[r]) \/ req[r].encoding = "base64"
       THEN EncodedAs(Unencoded(f.reply), f.result)
       ELSE f.result = Unencoded(f.reply)

\* what does hold: the Upstash-Encoding header alone decides
C14_UpstashEncodingOnly ==
  \A r \in Reqs : \A f \in Formatted(r) :
    IF AsksBase64(req[r])
    THEN EncodedAs(Unencoded(f.reply), f.result)
    ELSE f.result = Unencoded(f.reply)

\* ------------------------------------------------------------------------
\* C15: RESP2
\* ------------------------------------------------------------------------
CRLF == "\r\n"

\* concatenation of a sequence of strings
RECURSIVE Concat(_)
Concat(strs) == IF Len(strs) = 0 THEN "" ELSE Head(strs) \o Concat(Tail(strs))

\* the RESP2 text of a value without mappings, as the tests of formatResp2
\* expect it
RECURSIVE Resp2Of(_)
Resp2Of(v) ==
  CASE v.t = "null" -> "$-1" \o CRLF
    [] v.t = "bool" -> (IF v.b THEN ":1" ELSE ":0") \o CRLF
    [] v.t = "num" -> ":" \o ToString(v.n) \o CRLF
    [] v.t = "str" /\ v.s = "OK" -> "+OK" \o CRLF
    [] v.t = "str" /\ v.s # "OK" -> "$" \o ToString(Len(Utf8(v.s))) \o CRLF \o v.s \o CRLF
    [] v.t = "arr" ->
         "*" \o ToString(Len(v.a)) \o CRLF \o Concat([i \in 1..Len(v.a) |-> Resp2Of(v.a[i])])

\* replies without a mapping anywhere in them
RECURSIVE NoMapping(_)
NoMapping(v) ==
  /\ v.t # "obj"
  /\ v.t = "arr" => \A i \in 1..Len(v.a) : NoMapping(v.a[i])

\* C15: under `Upstash-Response-Format: resp2` the result is the RESP2 text
\* of the reply, computed recursively (null `$-1`, booleans `:1`/`:0`,
\* numbers `:<n>`, "OK" `+OK`, other strings `$<byte length>` then the
\* string, arrays `*<count>` then their elements, each item ended by CRLF),
\* and this also when the Base64 header is present.
C15_Resp2 ==
  \A r \in Reqs : \A f \in Formatted(r) :
    (req[r].format = "resp2" /\ NoMapping(f.reply))
    => f.result = JStr(Resp2Of(f.reply))

\* ------------------------------------------------------------------------
\* C16: a mapping is flattened
\* ------------------------------------------------------------------------
\* C16: a reply that is a mapping with n entries is returned as a sequence of
\* exactly 2n elements; counting from 0, position 2i holds the i-th key and
\* position 2i+1 the i-th value (an array value stays one element), in entry
\* order, each encoded when Base64 is asked for. A reply that is an array,
\* null or a scalar is not restructured.
C16_MappingFlattened ==
  \A r \in Reqs : \A f \in Formatted(r) :
    IF f.reply.t = "obj"
    THEN LET n == Len(f.reply.kv)
         IN /\ f.result.t = "arr"
            /\ Len(f.result.a) = 2 * n
            /\ \A i \in 0..(n - 1) :
                 LET key == JStr(f.reply.kv[i + 1][1])
                     value == f.reply.kv[i + 1][2]
                 IN IF AsksBase64(req[r])
                    THEN /\ EncodedAs(key, f.result.a[2 * i + 1])
                         /\ EncodedAs(value, f.result.a[2 * i + 2])
                    ELSE /\ f.result.a[2 * i + 1] = key
                         /\ f.result.a[2 * i + 2] = value
    ELSE IF AsksBase64(req[r])
         THEN EncodedAs(f.reply, f.result)
         ELSE f.result = f.reply

\* a mapping of two entries, the second with an array value, has been
\* returned as four elements
C16_Witness ==
  \E r \in Reqs :
    /\ ~AsksBase64(req[r])
    /\ [reply |-> JObj(<< <<"f", JStr("v")>>, <<"bar", JArr(<<JStr("v"), JStr("OK")>>)>> >>),
        result |-> JArr(<<JStr("f"), JStr("v"), JStr("bar"), JArr(<<JStr("v"), JStr("OK")>>)>>)]
         \in Formatted(r)

\* ------------------------------------------------------------------------
\* C17: command names and argument order
\* ------------------------------------------------------------------------
\* the commands slot r has submitted to the store: the one given to call(),
\* and the queued ones once exec() has been called
Submitted(r) ==
  { ops[r][i].cmd : i \in { j \in 1..Len(ops[r]) : ops[r][j].op = "call" } }
  \cup (IF \E i \in 1..Len(ops[r]) : ops[r][i].op = "exec"
        THEN { executor[r].queue[i] : i \in 1..Len(executor[r].queue) }
        ELSE {})

\* slot r has given a command to call()
Called(r) == IsGeneric(r) /\ ops[r] # <<>>

\* C17 as stated: every command submitted to the store, from a body, a path
\* or a batch, has a non-empty name.
C17_NonEmptyName ==
  \A r \in Reqs : \A cmd \in Submitted(r) : cmd.command # ""

\* C17 amended: a command built from the path has a non-empty name; the name
\* of a command built from a JSON array body or from a batch element is the
\* string of its first element, the empty string included; in every case the
\* arguments are submitted in the order of the request (the rest of the body
\* or of the path, then the query parameters).
C17_NameFromSource ==
  \A r \in Reqs :
    /\ Called(r) =>
         /\ PathUsed(r) \/ BodyUsed(r)
         /\ ~BodyUsed(r) => \A cmd \in Submitted(r) : cmd.command # ""
         /\ Submitted(r) = {calledCmd(r)}
    /\ ExecutesBatch(r) =>
         LET commands == req[r].body.val.a
         IN /\ executor[r].queue = [i \in 1..Len(commands) |-> ExpectedCmd(commands[i])]
            /\ Submitted(r) = { ExpectedCmd(commands[i]) : i \in 1..Len(commands) }
    /\ (~Called(r) /\ ~ExecutesBatch(r)) => Submitted(r) = {}

\* a POST whose body is ["", "a"] has had the command with the empty name
\* submitted, and so has a batch whose first element is ["", "a"]
C17_Witness ==
  /\ \E r \in Reqs :
       /\ req[r].body = JsonBody(JArr(<<JStr(""), JStr("a")>>))
       /\ Submitted(r) = {Cmd("", <<"a">>)}
       /\ Cmd("", <<"a">>) \in { e.cmd : e \in { storeLog[i] : i \in 1..Len(storeLog) } }

\* ------------------------------------------------------------------------
\* C20: an empty command in a batch
\* ------------------------------------------------------------------------
\* slot r handles a batch of command arrays one of which is empty
HasEmptyCommand(r) ==
  /\ pc[r] \notin {"idle", "json"}
  /\ req[r].method = "POST"
  /\ req[r].path \in {PipelinePath, MultiExecPath}
  /\ ~Rejected(r)
  /\ ~MalformedBatch(req[r].body)
  /\ \E i \in 1..Len(req[r].body.val.a) : Len(req[r].body.val.a[i].a) = 0

\* C20: a batch with an empty array among its elements is answered 400 with
\* {error: "Each command must be a non-empty array"}; exec() is never called
\* on the executor, nothing is awaited, and the store runs none of the
\* batch's commands, the valid ones queued before the empty one included.
C20_EmptyCommand ==
  \A r \in Reqs :
    HasEmptyCommand(r)
    => /\ Done(r)
       /\ resp[r] = jsonResponse(JObj(<< <<"error", JStr("Each command must be a non-empty array")>> >>), 400)
       /\ \A i \in 1..Len(ops[r]) : ops[r][i].op # "exec"
       /\ awaited[r] = NotAwaiting
       /\ RanFor(r) = <<>>
       /\ Submitted(r) = {}

\* a transaction whose second element is empty has been refused after its
\* first command was queued
C20_Witness ==
  \E r \in Reqs :
    /\ HasEmptyCommand(r)
    /\ req[r].path = MultiExecPath
    /\ req[r].body = JsonBody(JArr(<<JArr(<<JStr("get"), JStr("k")>>), JArr(<<>>)>>))
    /\ ops[r] = <<Op("multi", NoCmd), Op("queue", Cmd("get", <<"k">>))>>
    /\ resp[r].status = 400

\* ------------------------------------------------------------------------
\* The provider of the store client: getRedis and setRedis called directly
\* ------------------------------------------------------------------------
handlerVars == <<pc, req, executor, awaited, resp, ops, storeLog>>

\* getRedis(), called by a test or by the module at its start
getRedisCall ==
  /\ Provide(getRedis(redis, env))
  /\ UNCHANGED handlerVars
  /\ UNCHANGED shutdownVars

\* setRedis(newClient)
setRedis(newClient) ==
  /\ redis' = newClient
  /\ epoch' = [NoEpoch EXCEPT !.override = newClient]
  /\ env' = env
  /\ UNCHANGED handlerVars
  /\ UNCHANGED shutdownVars

\* The handler under test: the process has started under an environment that
\* getRedis accepts; tests inject clients (or undefined) with setRedis, call
\* getRedis and send requests.
ClientEnvs == { e \in Envs : ~getRedis(Undefined, e).threw }

ClientRequests ==
  { [method |-> "GET", path |-> HealthPath, auth |-> NoAuthHeader, query |-> <<>>,
     body |-> BlankBody, enc |-> "", encoding |-> "", format |-> ""],
    [method |-> "GET", path |-> <<"get", "foo">>, auth |-> Bearer(AUTH_TOKEN), query |-> <<>>,
     body |-> BlankBody, enc |-> "", encoding |-> "", format |-> ""],
    BatchOf(PipelinePath, <<JArr(<<JStr("get"), JStr("k")>>)>>) }

ClientInit == Idle /\ \E e \in ClientEnvs : Started(e)

ClientNext ==
  \/ getRedisCall
  \/ \E newClient \in Injected \cup {Undefined} : setRedis(newClient)
  \/ \E r \in Reqs : AllIdle /\ \E request \in ClientRequests : handler(r, request)
  \/ \E r \in Reqs, pong \in BOOLEAN : healthRespond(r, pong)
  \/ \E r \in Reqs : handleBatchCommands(r)
  \/ \E r \in Reqs : StorePipelineStep(r, FewReplies)
  \/ \E r \in Reqs : StorePipelineResolve(r)
  \/ \E r \in Reqs : handleBatchRespond(r)
  \/ \E r \in Reqs : handlerGeneric(r)
  \/ \E r \in Reqs : StoreCall(r, FewReplies)
  \/ \E r \in Reqs : handlerGenericRespond(r)
  \/ \E r \in Reqs : Recycle(r)

ClientSpec == ClientInit /\ [][ClientNext]_vars

\* redisClient on its own, from the start of the process under any
\* environment: nothing is stored yet
SentinelInit ==
  /\ Idle
  /\ env \in Envs /\ redis = Undefined /\ epoch = NoEpoch
  /\ sigterm = "none" /\ conn = "closed" /\ listening = FALSE

SentinelNext ==
  \/ getRedisCall
  \/ \E newClient \in Injected \cup {Undefined} : setRedis(newClient)

SentinelSpec == SentinelInit /\ [][SentinelNext]_vars

\* ------------------------------------------------------------------------
\* C18: the store client is a singleton
\* ------------------------------------------------------------------------
\* C18: since the last setRedis (or the start of the process) at most one
\* client has been constructed, every call of getRedis, the handler's calls
\* included, has returned one and the same client, and that client is the
\* stored one; after setRedis(c) with a client c nothing is constructed and
\* the stored client stays c, whatever requests are handled.
C18_Singleton ==
  /\ epoch.built <= 1
  /\ Cardinality(epoch.got) <= 1
  /\ epoch.got \subseteq {redis}
  /\ epoch.override \in Injected => (epoch.built = 0 /\ redis = epoch.override)
  /\ (epoch.override = Undefined /\ epoch.built = 1) => redis.kind = "client"

\* a client has been injected, getRedis has returned it, and a request has
\* been answered 200 through it
C18_Witness ==
  \E c \in Injected : \E r \in Reqs :
    /\ epoch.override = c
    /\ epoch.got = {c}
    /\ redis = c
    /\ Done(r)
    /\ resp[r].status = 200
    /\ ops[r] # <<>>

\* ------------------------------------------------------------------------
\* C19: the sentinel list
\* ------------------------------------------------------------------------
\* the entry is exactly a non-empty host, one colon and a port of digits
WellFormedEntry(s) ==
  \E k \in 2..(Len(s) - 1) :
    /\ s[k] = ":"
    /\ \A i \in 1..(k - 1) : s[i] # ":"
    /\ \A i \in (k + 1)..Len(s) : s[i] \in Digits

\* getRedis has been called in sentinel mode with no client stored before
CalledInSentinelMode ==
  /\ env.REDIS_SENTINELS.set
  /\ env.REDIS_SENTINELS.text # <<>>
  /\ epoch.override = Undefined
  /\ epoch.got # {} \/ epoch.error # ""

\* C19: in sentinel mode getRedis stores a client only if every entry is
\* exactly a non-empty host and a numeric port; with any other entry (no
\* colon, empty host, empty or non-numeric port, more colon-separated parts,
\* a port with trailing non-digits) it fails with "Invalid sentinel
\* configuration" naming the first such entry, and stores no client.
C19_StrictSentinels ==
  CalledInSentinelMode =>
    LET entries == split(env.REDIS_SENTINELS.text, ",")
        bad == { i \in 1..Len(entries) : ~WellFormedEntry(entries[i]) }
    IN IF bad = {}
       THEN redis.kind = "client" /\ epoch.error = ""
       ELSE /\ redis = Undefined
            /\ epoch.got = {}
            /\ epoch.error = InvalidSentinelMsg(entries[CHOOSE i \in bad : \A j \in bad : i <= j])

\* the entry has a non-empty host and, after the first colon, a part that
\* begins with a digit; what follows the digits is not looked at
AcceptedEntry(s) ==
  \E k \in 2..(Len(s) - 1) :
    /\ s[k] = ":"
    /\ \A i \in 1..(k - 1) : s[i] # ":"
    /\ s[k + 1] \in Digits

\* what does hold: entries are accepted on their first two parts alone
C19_LenientSentinels ==
  CalledInSentinelMode =>
    LET entries == split(env.REDIS_SENTINELS.text, ",")
        bad == { i \in 1..Len(entries) : ~AcceptedEntry(entries[i]) }
    IN IF bad = {}
       THEN redis.kind = "client" /\ epoch.error = ""
       ELSE /\ redis = Undefined
            /\ epoch.got = {}
            /\ epoch.error = InvalidSentinelMsg(entries[CHOOSE i \in bad : \A j \in bad : i <= j])

\* ------------------------------------------------------------------------
\* C21: a body that is not JSON
\* ------------------------------------------------------------------------
ParseError400 == jsonResponse(ErrorBody("Unable to parse request body as JSON."), 400)

\* C21 as stated: a generic request with a body-bearing method (POST, PUT)
\* and a non-blank body that is not JSON is answered 400 "Unable to parse
\* request body as JSON." and no command is sent, whatever the path.
C21_BodyBearingParse ==
  \A r \in Reqs :
    (IsGeneric(r) /\ req[r].method \in {"POST", "PUT", "PATCH"} /\ req[r].body.kind = "invalid")
    => /\ Done(r)
       /\ resp[r] = ParseError400
       /\ ops[r] = <<>>
       /\ RanFor(r) = <<>>

\* C21 amended: only POST makes the body count. A POST with a non-blank body
\* that is not JSON is answered 400 with that message and nothing is sent to
\* the store, even when the path names a command. With any other method
\* (PUT included), or with a blank or unreadable body, the body is ignored:
\* the command is the path's, or 400 "No command provided in URL." when the
\* path has no segment.
C21_PostParse ==
  \A r \in Reqs :
    IsGeneric(r) =>
      /\ (req[r].method = "POST" /\ req[r].body.kind = "invalid")
         => /\ Done(r)
            /\ resp[r] = ParseError400
            /\ ops[r] = <<>>
            /\ RanFor(r) = <<>>
      /\ (req[r].method # "POST" \/ req[r].body.kind \in {"blank", "unreadable"})
         => IF Segments(req[r]) = <<>>
            THEN /\ Done(r)
                 /\ resp[r] = jsonResponse(ErrorBody("No command provided in URL."), 400)
                 /\ ops[r] = <<>>
            ELSE PathUsed(r)

\* a POST /set/foo whose body is not JSON has been refused with nothing sent
C21_Witness ==
  /\ \E r \in Reqs :
       /\ IsGeneric(r)
       /\ ops[r] = <<>>
       /\ req[r].method = "POST"
       /\ req[r].path = <<"set", "foo">>
       /\ req[r].body = InvalidBody
       /\ resp[r] = ParseError400

\* ------------------------------------------------------------------------
\* C22: a body array that is not a command
\* ------------------------------------------------------------------------
\* slot r handles a generic request whose body was parsed into an array that
\* is not a flat command: empty, its first element not a string, or with an
\* element that is neither a string nor a number
InvalidArrayParsed(r) ==
  /\ IsGeneric(r)
  /\ req[r].method = "POST"
  /\ IsArrayBody(req[r].body)
  /\ ~ValidFlatBody(req[r].body)

\* C22: when the parsed body is an array that is not a valid flat command,
\* the handler answers 400 with buildCommand's error and sends nothing to the
\* store; the path is not used, even when it names a command.
C22_NoPathFallback ==
  \A r \in Reqs :
    InvalidArrayParsed(r)
    => /\ Done(r)
       /\ resp[r].status = 400
       /\ IsErrorBody(resp[r].body)
       /\ resp[r].body.kv[1][2].s \in {InvalidElementMsg, FirstElementMsg, BatchRedirectMsg}
       /\ ops[r] = <<>>
       /\ RanFor(r) = <<>>
       /\ ~PathUsed(r)

\* POST /set/foo has been refused with such a body: the empty array, an
\* array that starts with a number, or one that holds null
C22_Witness ==
  \E r \in Reqs :
    /\ InvalidArrayParsed(r)
    /\ req[r].path = <<"set", "foo">>
    /\ req[r].body \in {JsonBody(JArr(<<>>)), JsonBody(JArr(<<JNum(1), JStr("a")>>)),
                        JsonBody(JArr(<<JStr("get"), JNull>>))}
    /\ resp[r].status = 400

\* ------------------------------------------------------------------------
\* C23: no retry
\* ------------------------------------------------------------------------
\* the operations slot r has sent to the store: pings, calls and execs
StoreOps(r) == SelectSeq(ops[r], LAMBDA o : o.op \in {"ping", "call", "exec"})

\* the operation slot r awaited has failed: it rejected, or exec() gave null
Failed(r) == awaited[r].state \in {"rejected", "null"}

\* C23: a request sends at most one operation to the store (one ping, one
\* call or one exec of one executor), the store runs each of its commands at
\* most once, and when the operation fails it is not sent again: the failed
\* operation is still the only one, and a generic or batch request is then
\* answered 400 with the error.
C23_NoRetry ==
  \A r \in Reqs :
    /\ Len(StoreOps(r)) <= 1
    /\ Len(RanFor(r)) <= (IF executor[r] = NoExecutor THEN 1 ELSE Len(executor[r].queue))
    /\ Failed(r) =>
         /\ Len(StoreOps(r)) = 1
         /\ Done(r) => /\ resp[r].status = 400
                       /\ IsErrorBody(resp[r].body)

\* a call has rejected after the store ran the command, and the request was
\* answered 400 with that one call sent
C23_Witness ==
  \E r \in Reqs :
    /\ Done(r)
    /\ Failed(r)
    /\ Len(ops[r]) = 1
    /\ ops[r][1].op = "call"
    /\ Len(RanFor(r)) = 1
    /\ resp[r] = jsonResponse(ErrorBody(CommandErrorMsg), 400)

\* ------------------------------------------------------------------------
\* C24: requests in flight together
\* ------------------------------------------------------------------------
\* the commands of the batch slot r was sent
OwnCommands(r) ==
  [i \in 1..Len(req[r].body.val.a) |-> ExpectedCmd(req[r].body.val.a[i])]

\* C24: with several requests in flight, the executor of a batch request
\* holds that request's commands, all of them and no other, in its order;
\* the store runs for it its own commands only; exec() yields the results of
\* its own commands; the response has one element per command of its own, the
\* i-th made from the i-th result. No handler waits on another: a handler
\* whose exec() or call() has settled can answer whatever the others do.
C24_Isolation ==
  \A r \in Reqs :
    /\ ExecutesBatch(r) =>
         LET own == OwnCommands(r)
             results == awaited[r].results
         IN /\ executor[r].queue = own
            /\ \E n \in 0..Len(own) : RanFor(r) = [i \in 1..n |-> LogEntry(r, own[i])]
            /\ Len(results) <= Len(own)
            /\ \A i \in 1..Len(results) : results[i].cmd = own[i]
            /\ (Done(r) /\ resp[r].status = 200) =>
                 /\ Len(resp[r].body.a) = Len(own)
                 /\ \A i \in 1..Len(own) : resp[r].body.a[i] = batchElement(results[i], req[r])
    /\ (pc[r] = "exec" /\ awaited[r].state \in {"resolved", "null", "rejected"})
         => ENABLED handleBatchRespond(r)
    /\ (pc[r] = "call" /\ awaited[r].state \in {"resolved", "rejected"})
         => ENABLED handlerGenericRespond(r)

\* two different batches were in flight together: the store ran a command of
\* one between the commands of the other, and both were answered 200
C24_Witness ==
  \E r \in Reqs : \E s \in Reqs :
    /\ r # s
    /\ ExecutesBatch(r) /\ ExecutesBatch(s)
    /\ OwnCommands(r) # OwnCommands(s)
    /\ Done(r) /\ resp[r].status = 200
    /\ Done(s) /\ resp[s].status = 200
    /\ ~Contiguous(LogPositions(s))

\* ------------------------------------------------------------------------
\* Shutdown: the SIGTERM callback
\*   await getRedis().quit();
\*   await server.stop();
\* ------------------------------------------------------------------------
\* SIGTERM arrives: the callback takes the client and calls quit() on it
sigtermReceived ==
  /\ sigterm = "none"
  /\ LET got == getRedis(redis, env)
     IN /\ Provide(got)
        /\ sigterm' = IF got.threw THEN "threw" ELSE "quit"
  /\ UNCHANGED <<conn, listening>>
  /\ UNCHANGED handlerVars

\* quit() settles. Resolved: the connection is closed and the callback goes
\* on to call server.stop(), after which the listener accepts nothing.
\* Rejected: the await throws, nothing catches it and the callback ends.
quitSettles(resolved) ==
  /\ sigterm = "quit"
  /\ IF resolved
     THEN /\ conn' = "closed"
          /\ sigterm' = "stop"
          /\ listening' = FALSE
     ELSE /\ sigterm' = "threw"
          /\ UNCHANGED <<conn, listening>>
  /\ UNCHANGED handlerVars
  /\ UNCHANGED clientVars

\* server.stop() resolves and the callback returns
stopSettles ==
  /\ sigterm = "stop"
  /\ sigterm' = "done"
  /\ UNCHANGED <<conn, listening>>
  /\ UNCHANGED handlerVars
  /\ UNCHANGED clientVars

ShutdownRequests ==
  { [method |-> "GET", path |-> HealthPath, auth |-> NoAuthHeader, query |-> <<>>,
     body |-> BlankBody, enc |-> "", encoding |-> "", format |-> ""],
    [method |-> "GET", path |-> <<"get", "k">>, auth |-> Bearer(AUTH_TOKEN), query |-> <<>>,
     body |-> BlankBody, enc |-> "", encoding |-> "", format |-> ""] }

\* requests arrive while the listener accepts them; the store answers over
\* the connection while it is open, and a call on a closed one is rejected
ShutdownNext ==
  \/ sigtermReceived
  \/ \E resolved \in BOOLEAN : quitSettles(resolved)
  \/ stopSettles
  \/ \E r \in Reqs : listening /\ \E request \in ShutdownRequests : handler(r, request)
  \/ \E r \in Reqs, pong \in BOOLEAN : (pong => conn = "open") /\ healthRespond(r, pong)
  \/ \E r \in Reqs : handlerGeneric(r)
  \/ \E r \in Reqs : conn = "open" /\ StoreCall(r, FewReplies)
  \/ \E r \in Reqs : StoreCallReject(r)
  \/ \E r \in Reqs : handlerGenericRespond(r)
  \/ \E r \in Reqs : Recycle(r)

ShutdownSpec == Init /\ [][ShutdownNext]_vars

\* ------------------------------------------------------------------------
\* C25: shutdown
\* ------------------------------------------------------------------------
\* C25: after SIGTERM the store connection is closed first and the listener
\* stopped second, and the shutdown reaches the state where both have
\* happened whatever quit() yields: the listener is never stopped over an open
\* connection, and the callback never ends with the connection open or the
\* listener still accepting requests.
C25_ShutdownCompletes ==
  /\ ~listening => conn = "closed"
  /\ sigterm \in {"done", "threw"} => (conn = "closed" /\ ~listening)

\* what the callback does guarantee: the listener is stopped only after
\* quit() has resolved, and a callback that has returned has done both
C25_QuitBeforeStop ==
  /\ ~listening => (conn = "closed" /\ sigterm \in {"stop", "done"})
  /\ sigterm = "done" => (conn = "closed" /\ ~listening)
  /\ sigterm = "threw" => listening

\* quit() has rejected: the callback is over and the listener goes on
\* accepting requests
C25_ListenerLeftRunning ==
  /\ sigterm = "threw"
  /\ listening
  /\ \E r \in Reqs : pc[r] # "idle"

====
